---------------------------- MODULE Spec2Model ----------------------------
(***************************************************************************)
(* Model of the pyhsm credential validation server                        *)
(* (src/pyhsm/val/validation_server.py): the record store ValOathDb, the  *)
(* OATH-HOTP / OATH-TOTP validation handlers, the OTP 2.0 handler and its *)
(* request/response signatures; and of the stick daemon                   *)
(* (src/pyhsm/stick_daemon.py) that shares one device between clients.    *)
(***************************************************************************)
EXTENDS Integers, Sequences, FiniteSets, TLC

VARIABLES
    db,        \* table oath of the SQLite file: key -> row (committed content)
    wlock,     \* connection holding SQLite's write lock (execute .. commit)
    now,       \* current TOTP time step, int(time.time()) / interval
    req,       \* per connection: position and locals of the request handler
    sent,      \* the response line the last step wrote, if it wrote one, and on which connection
    maxOk,     \* history: per key, the largest new_c update_oath_hotp_c returned True for
    maxHotpOk, \* history: per key, the largest matched counter of a HOTP request answered OK
    val,       \* the OTP 2.0 request last handled: its params, the device's answer, the outcome
    args,      \* the server's configuration (global args): the validation modes enabled
    calls,     \* what the last step called: validation functions, the record store, the device
    get,       \* the query a client sends to the serving URL, and what its handler is given
    pwh,       \* the password hash request a client repeats, and history: the first answer to it
    lock,      \* stick daemon: self.lock (threading.Lock), TRUE when locked
    stick,     \* stick daemon: self._stick, the cached device handle
    handler,   \* stick daemon: per client connection, position and locals of client_handler
    ran,       \* stick daemon: what the last step did (lock calls, device calls, reply), and for whom
    bits,      \* the HOTP/TOTP request whose uid and code are extracted, and what became of it
    enrol,     \* init_oath_token: its command line and how far the run got
    clients,   \* the server's start: the clients file, and client_ids once loaded
    dec,       \* decrypt_aead: its command line, the files, and MyState at the end of main
    unl        \* keystore_unlock: what the operator enters, and what main did with it

\* the state of the stick daemon
stickVars == <<lock, stick, handler, ran>>

\* the state of the programs and steps modelled on their own
toolVars == <<bits, enrol, clients, dec, unl>>

vars == <<db, wlock, now, req, sent, maxOk, maxHotpOk, val, args, calls, get, pwh, stickVars, toolVars>>

----------------------------------------------------------------------------
(* Bounds of the model *)

\* largest counter / time step a presented code is valid for
MaxCtr == 3
\* largest value of the clock (in time steps)
MaxNow == 2
\* largest counter a presented code is valid for, with two identities enrolled
MaxFrameCtr == 1

(* Configuration (command line of the server) *)

\* args.look_ahead (--hotp-window)
look_ahead == 2
\* args.tolerance (--totp-tolerance)
tolerance == 1

\* concurrent request handlers, each with its own ValOathDb connection
Reqs == {"r1", "r2"}
NoReq == "none"

\* identities enrolled in the table oath, and one that is not
Enrolled == {"ubftcdcdckcf"}
Unknown == "cccccccccccc"
Uids == Enrolled \cup {Unknown}

----------------------------------------------------------------------------
(* Trust device: HMAC-SHA1 of a counter under the secret inside an AEAD.   *)
(* The engine never sees the secret; codes of distinct (secret, counter)   *)
(* pairs are taken to be distinct.                                         *)

\* secret the device recovers from an identity's AEAD
SecretOf(uid) == IF uid = "ubftcdcdckcf" THEN 1 ELSE 2

\* truncate(hmac_sha1(secret, counter)) as computed inside the device
HotpCode(secret, c) == secret * 100 + c

\* codes a client may present for an enrolled identity: the code of each
\* counter, a code no counter produces, and 0
Codes(uid) == {HotpCode(SecretOf(uid), c) : c \in 0..MaxCtr} \cup {999, 0}

\* what a HOTP/TOTP request carries: lexOk, whether the hotp/totp value passes
\* the input pattern, and the uid and code taken from it by get_oath_hotp_bits;
\* devOk: the device answers the search (otherwise its exception ends the handler)
OathInputs ==
    {[lexOk |-> FALSE, uid |-> "", otp |-> 0, devOk |-> TRUE],
     [lexOk |-> TRUE, uid |-> "", otp |-> 999, devOk |-> TRUE]}
    \cup {[lexOk |-> TRUE, uid |-> Unknown, otp |-> c, devOk |-> TRUE] : c \in {999, 0}}
    \cup UNION {{[lexOk |-> TRUE, uid |-> u, otp |-> c, devOk |-> TRUE] : c \in Codes(u)}
                 \cup {[lexOk |-> TRUE, uid |-> u, otp |-> 999, devOk |-> FALSE]} :
                 u \in Enrolled}

----------------------------------------------------------------------------
(* "%04x" % n *)

HexDigits == <<"0","1","2","3","4","5","6","7","8","9","a","b","c","d","e","f">>

RECURSIVE HexStr(_)
HexStr(n) == IF n < 16 THEN HexDigits[n + 1]
             ELSE HexStr(n \div 16) \o HexDigits[(n % 16) + 1]

RECURSIVE PadLeft(_, _)
PadLeft(s, width) == IF Len(s) >= width THEN s ELSE PadLeft("0" \o s, width)

Hex04(n) == PadLeft(HexStr(n), 4)

----------------------------------------------------------------------------
(* Python values used by the OTP 2.0 handler *)

\* A dict (the request's params from urlparse.parse_qs, or the response's
\* vres) is a sequence of <<name, values>> with distinct names, in the dict's
\* own iteration order; values is the list of strings held for the name
\* (a str value v is held as <<v>>: "".join gives v for both).
Has(d, k) == \E i \in 1..Len(d) : d[i][1] = k
Get(d, k) == d[CHOOSE i \in 1..Len(d) : d[i][1] = k][2]
Keys(d) == [i \in 1..Len(d) |-> d[i][1]]
DictSet(d, k, v) ==
    IF Has(d, k) THEN [i \in 1..Len(d) |-> IF d[i][1] = k THEN <<k, v>> ELSE d[i]]
    ELSE Append(d, <<k, v>>)

RECURSIVE Join(_, _)
Join(list, sep) ==
    IF Len(list) = 0 THEN ""
    ELSE IF Len(list) = 1 THEN list[1]
    ELSE list[1] \o sep \o Join(Tail(list), sep)

\* the names that occur as keys, in the order of Python's string comparison
NameOrder == <<"h", "hotp", "id", "nonce", "otp", "pwhash", "sessioncounter",
               "sessionuse", "sl", "status", "t", "timestamp", "totp">>
Rank(name) == CHOOSE i \in 1..Len(NameOrder) : NameOrder[i] = name

\* sorted(keys)
RECURSIVE InsertSorted(_, _)
InsertSorted(k, sortedKeys) ==
    IF Len(sortedKeys) = 0 THEN <<k>>
    ELSE IF Rank(k) <= Rank(Head(sortedKeys)) THEN <<k>> \o sortedKeys
    ELSE <<Head(sortedKeys)>> \o InsertSorted(k, Tail(sortedKeys))

RECURSIVE sorted(_)
sorted(keys) == IF Len(keys) = 0 THEN <<>> ELSE InsertSorted(Head(keys), sorted(Tail(keys)))

\* str(n) of a non-negative int
DecDigits == <<"0", "1", "2", "3", "4", "5", "6", "7", "8", "9">>
RECURSIVE str(_)
str(n) == IF n < 10 THEN DecDigits[n + 1] ELSE str(n \div 10) \o DecDigits[(n % 10) + 1]

\* int(s) for the id strings of the model; NaN is the ValueError
NaN == -1
int(s) == CASE s = "1" -> 1
            [] s = "01" -> 1
            [] s = "2" -> 2
            [] OTHER -> NaN

\* re.match(ykotp_valid_input, from_key): 32 to 48 modhex characters
GoodOtp == "ccccccccccccdefghijklnrtuvcbdefg"
ykotp_valid_input(from_key) == from_key \in {GoodOtp}

None == "<None>"
\* chr(0)
NullKey == "<chr(0)>"

\* client_ids as loaded from the clients file: id -> shared secret
client_ids == (1 :> "shared secret")
client_ids_get(id_int) == IF id_int \in DOMAIN client_ids THEN client_ids[id_int] ELSE None

\* base64(hmac-sha1(key, msg).digest()): distinct (key, msg) give distinct strings
HmacSha1Base64(hmac_key, msg) == "hmac{" \o hmac_key \o "}{" \o msg \o "}"

----------------------------------------------------------------------------
(* Signature authenticator *)

\* [x + "=" + "".join(params[x]) for x in keys]
RECURSIVE PairStrings(_, _)
PairStrings(params, keys) ==
    IF Len(keys) = 0 THEN <<>>
    ELSE <<Head(keys) \o "=" \o Join(Get(params, Head(keys)), "")>>
         \o PairStrings(params, Tail(keys))

\* (mutation) the keys are taken in the dict's own order
SignedKeys_Unsorted(params) == SelectSeq(Keys(params), LAMBDA x : x # "h")

\* ... for x in sorted(params.keys()) if x != "h"
SignedKeys(params) == SelectSeq(sorted(Keys(params)), LAMBDA x : x # "h")

make_signature(params, hmac_key) ==
    HmacSha1Base64(hmac_key, Join(PairStrings(params, SignedKeys(params)), "&"))

\* the comparison of the supplied signature with the computed one
SignatureEquals(sig, good_sig) == sig = good_sig

\* returns <<ValResultBool, Key>>
check_signature(params) ==
    IF Has(params, "id")
    THEN LET id_int == int(Get(params, "id")[1])
             key == client_ids_get(id_int)
         IN  IF id_int = NaN THEN <<FALSE, None>>
             ELSE IF key # None /\ key # ""
             THEN IF Has(params, "h")
                  THEN IF SignatureEquals(Get(params, "h")[1], make_signature(params, key))
                       THEN <<TRUE, key>>
                       \* "Bad signature" is logged and control leaves the if
                       \* statement: the function's last line returns
                       ELSE <<TRUE, None>>
                  ELSE <<FALSE, key>>
             ELSE <<FALSE, None>>
    ELSE <<TRUE, None>>

----------------------------------------------------------------------------
(* OTP 2.0 handler *)

\* what pyhsm.yubikey.validate_otp does: a result, or YHSM_CommandFailed(status)
DevOutcomes == {"OK", "YSM_ID_NOT_FOUND", "YSM_OTP_REPLAY", "YSM_OTP_INVALID",
                "YSM_FUNCTION_DISABLED"}
DevResult == [use_ctr |-> 1, session_ctr |-> 2, ts_high |-> 1, ts_low |-> 16]

\* params["sl"] == "100": a list compared with a str
ListEqualsStr(values, s) == FALSE

\* (mutation) the pattern of the otp value is not checked
InputChecks_NoPattern(params) ==
    LET from_key == Get(params, "otp")[1]
        v1 == <<<<"otp", <<from_key>>>>>>
        v2 == IF ~Has(params, "nonce") THEN DictSet(v1, "status", <<"MISSING_PARAMETER">>)
              ELSE LET nonce == Get(params, "nonce")[1]
                   IN  IF Len(nonce) < 16 \/ Len(nonce) > 40
                       THEN DictSet(v1, "status", <<"MISSING_PARAMETER">>)
                       ELSE DictSet(v1, "nonce", <<nonce>>)
    IN  IF Has(params, "sl") /\ ~(ListEqualsStr(Get(params, "sl"), "100")
                                  \/ ListEqualsStr(Get(params, "sl"), "secure"))
        THEN DictSet(v2, "status", <<"BACKEND_ERROR">>)
        ELSE v2

\* lines 244-263: the checks of otp, nonce and sl
InputChecks(params) ==
    LET from_key == Get(params, "otp")[1]
        v1 == IF ~ykotp_valid_input(from_key) THEN <<<<"status", <<"BAD_OTP">>>>>>
              ELSE <<<<"otp", <<from_key>>>>>>
        v2 == IF ~Has(params, "nonce") THEN DictSet(v1, "status", <<"MISSING_PARAMETER">>)
              ELSE LET nonce == Get(params, "nonce")[1]
                   IN  IF Len(nonce) < 16 \/ Len(nonce) > 40
                       THEN DictSet(v1, "status", <<"MISSING_PARAMETER">>)
                       ELSE DictSet(v1, "nonce", <<nonce>>)
    IN  IF Has(params, "sl") /\ ~(ListEqualsStr(Get(params, "sl"), "100")
                                  \/ ListEqualsStr(Get(params, "sl"), "secure"))
        THEN DictSet(v2, "status", <<"BACKEND_ERROR">>)
        ELSE v2

\* (mutation) client_key stays None for an unknown client
SignatureChecks_NoNullKey(vres, sig) ==
    IF sig[1] # TRUE
    THEN IF sig[2] = None
         THEN [vres |-> DictSet(vres, "status", <<"NO_SUCH_CLIENT">>), client_key |-> None]
         ELSE [vres |-> DictSet(vres, "status", <<"BAD_SIGNATURE">>), client_key |-> sig[2]]
    ELSE [vres |-> vres, client_key |-> sig[2]]

\* lines 264-275: the outcome of check_signature; gives vres and client_key
SignatureChecks(vres, sig) ==
    IF sig[1] # TRUE
    THEN IF sig[2] = None
         \* "we will sign this response using a null key"
         THEN [vres |-> DictSet(vres, "status", <<"NO_SUCH_CLIENT">>), client_key |-> NullKey]
         ELSE [vres |-> DictSet(vres, "status", <<"BAD_SIGNATURE">>), client_key |-> sig[2]]
    ELSE [vres |-> vres, client_key |-> sig[2]]

\* (mutation) a replayed OTP is reported like an invalid one
DeviceStatus_ReplayAsBad(dev) ==
    CASE dev = "YSM_ID_NOT_FOUND" -> "BAD_OTP"
      [] dev = "YSM_OTP_REPLAY" -> "BAD_OTP"
      [] dev = "YSM_OTP_INVALID" -> "BAD_OTP"
      [] OTHER -> "BACKEND_ERROR"

\* lines 277-303: the device is asked, and its answer put into vres
DeviceStatus(dev) ==
    CASE dev = "YSM_ID_NOT_FOUND" -> "BAD_OTP"
      [] dev = "YSM_OTP_REPLAY" -> "REPLAYED_OTP"
      [] dev = "YSM_OTP_INVALID" -> "BAD_OTP"
      [] OTHER -> "BACKEND_ERROR"

AskDevice(vres, params, dev) ==
    IF dev = "OK"
    THEN LET res == DevResult
             a == DictSet(vres, "status", <<"OK">>)
             b == DictSet(a, "sessioncounter", <<str(res.use_ctr)>>)
             c == DictSet(b, "sessionuse", <<str(res.session_ctr)>>)
             d == DictSet(c, "timestamp",
                          <<str((res.ts_high * 65536 + res.ts_low) \div 8)>>)
             e == IF Has(params, "sl") THEN DictSet(d, "sl", <<"100">>) ELSE d
         IN  IF Has(params, "sl") /\ Has(params, "timestamp")
             THEN DictSet(e, "t", <<"1970-01-01T00:00:00Z0000">>)
             ELSE e
    ELSE DictSet(vres, "status", <<DeviceStatus(dev)>>)

\* make_otp_response: the signed dict and the response text
SignedResponse(vres, client_key) ==
    IF client_key # None THEN DictSet(vres, "h", <<make_signature(vres, client_key)>>)
    ELSE vres

make_otp_response(vres, client_key) ==
    LET signed == SignedResponse(vres, client_key)
    IN  Join(PairStrings(signed, sorted(Keys(signed))), "\n")

\* the handler: what it answers, and whether it asked the device
validate_yubikey_otp(params, dev) ==
    LET sig == check_signature(params)
        chk == SignatureChecks(InputChecks(params), sig)
        asked == ~Has(chk.vres, "status")
        vres == IF asked THEN AskDevice(chk.vres, params, dev) ELSE chk.vres
    IN  [sig |-> sig, client_key |-> chk.client_key, asked |-> asked,
         vres |-> SignedResponse(vres, chk.client_key),
         response |-> make_otp_response(vres, chk.client_key)]

----------------------------------------------------------------------------
(* Candidate search: pyhsm.oath_hotp / pyhsm.oath_totp search_for_oath_code *)

NotFound == -1

\* probes counter, counter+1, .. for j in xrange(look_ahead); next counter on match
RECURSIVE hotp_search_from(_, _, _, _, _)
hotp_search_from(secret, counter, user_code, j, window) ==
    IF j >= window THEN NotFound
    ELSE IF HotpCode(secret, counter + j) = user_code THEN counter + j + 1
    ELSE hotp_search_from(secret, counter, user_code, j + 1, window)

hotp_search_for_oath_code(secret, counter, user_code, window) ==
    hotp_search_from(secret, counter, user_code, 0, window)

\* probes time counters timecounter-tol .. timecounter+tol in ascending order
RECURSIVE totp_search_from(_, _, _, _)
totp_search_from(secret, t, last, user_code) ==
    IF t > last THEN NotFound
    ELSE IF t >= 0 /\ HotpCode(secret, t) = user_code THEN t
    ELSE totp_search_from(secret, t + 1, last, user_code)

totp_search_for_oath_code(secret, user_code, timecounter, tol) ==
    totp_search_from(secret, timecounter - tol, timecounter + tol, user_code)

----------------------------------------------------------------------------
(* Record store *)

Row(key, c) == [key |-> key, nonce |-> "010203040506", key_handle |-> 8192,
                aead |-> "2b70", oath_c |-> c]

\* ValOathDb.get: the row of key, or the exception "not found"
NoRow == [key |-> "", nonce |-> "", key_handle |-> 0, aead |-> "", oath_c |-> -1]
ValOathDb_get(key) == IF key \in DOMAIN db THEN db[key] ELSE NoRow

\* (mutation) the counter the caller read is compared, not the stored one
UpdateMatches_Stale(entry, new_c) ==
    entry.key \in DOMAIN db /\ new_c > entry.oath_c

\* (mutation) ? >= oath_c
UpdateMatches_GE(entry, new_c) ==
    entry.key \in DOMAIN db /\ new_c >= db[entry.key].oath_c

\* (mutation) WHERE key = ? alone
UpdateMatches_Unconditional(entry, new_c) == entry.key \in DOMAIN db

\* WHERE key = ? AND ? > oath_c, with key = entry.data["key"]: the comparison
\* is made by the statement against the stored row, whatever counter entry holds
UpdateMatches(entry, new_c) ==
    entry.key \in DOMAIN db /\ new_c > db[entry.key].oath_c

\* (mutation) the counter is written whether or not the statement matched a row
UpdateApplied_Always(key, new_c, rowcount) ==
    IF key \in DOMAIN db THEN [db EXCEPT ![key] = [@ EXCEPT !.oath_c = new_c]] ELSE db

\* (mutation) UPDATE oath SET oath_c = ? without WHERE key = ?
UpdateApplied_AllRows(key, new_c, rowcount) ==
    IF rowcount = 1 THEN [u \in DOMAIN db |-> [db[u] EXCEPT !.oath_c = new_c]] ELSE db

\* (mutation) the transaction is never committed
UpdateApplied_NoCommit(key, new_c, rowcount) == db

\* the table once the connection's transaction is committed
UpdateApplied(key, new_c, rowcount) ==
    IF rowcount = 1 THEN [db EXCEPT ![key] = [@ EXCEPT !.oath_c = new_c]] ELSE db

----------------------------------------------------------------------------
(* Stick daemon: commands and state *)

CMD_WRITE == 0
CMD_READ == 1
CMD_FLUSH == 2
CMD_DRAIN == 3
CMD_LOCK == 4
CMD_UNLOCK == 5

COMMANDS == [cmd \in CMD_WRITE..CMD_DRAIN |->
                CASE cmd = CMD_WRITE -> "write"
                  [] cmd = CMD_READ -> "read"
                  [] cmd = CMD_FLUSH -> "flush"
                  [] cmd = CMD_DRAIN -> "drain"]

\* a command number that COMMANDS has no entry for
UnknownCmd == 9
\* a line json.loads, data[0] or unpack_data raises on; the empty line of a
\* closed socket is one
BadLine == -1
\* what readline may give
Lines == (CMD_WRITE..CMD_UNLOCK) \cup {UnknownCmd, BadLine}

\* client connections the daemon accepts, each served by its own thread
Conns == {"a", "b", "c"}
NoConn == "none"

\* self._stick with a device handle in it
Handle == "<YHSM_Stick>"
\* res of invoke when the command raised: the exception
Raised == "<exception>"
\* res of invoke when the device answered
Answer == "<result>"
ErrNoLock == "Command run without holding lock!"

\* no thread serves the connection (not accepted yet, or closed)
Closed == [pc |-> "closed", has_lock |-> FALSE, cmd |-> BadLine, res |-> None]
\* client_handler at its start: has_lock = False, about to read a line
Started == [Closed EXCEPT !.pc = "readline"]

\* a step that called nothing of the lock or the device and wrote nothing
NoRun == [by |-> NoConn, acquired |-> FALSE, released |-> 0, opened |-> FALSE,
          command |-> None, reply |-> None]

\* the daemon before any connection: YHSM_Stick_Server.__init__
StickIdle ==
    /\ lock = FALSE
    /\ stick = None
    /\ handler = [c \in Conns |-> Closed]
    /\ ran = NoRun

----------------------------------------------------------------------------
(* HOTP/TOTP requests as text: the input pattern and the extraction of uid *)
(* and code.  A string is a sequence of one-character strings.             *)

ModhexChars == {"c","b","d","e","f","g","h","i","j","k","l","n","r","t","u","v"}
DigitChars == <<"0","1","2","3","4","5","6","7","8","9">>

IsDigit(ch) == \E d \in 1..10 : DigitChars[d] = ch
DigitSet == {DigitChars[d] : d \in 1..10}
DigitValue(ch) == (CHOOSE d \in 1..10 : DigitChars[d] = ch) - 1

\* the repetition counts of the patterns: {6,20} of hotp_valid_input and
\* totp_valid_input, {6,8} of the extraction
InputMin == 6
InputMax == 20
CodeMin == 6
CodeMax == 8

\* a `$' of re.match also matches before a newline that ends the string
BeforeEnd(s) == IF Len(s) > 0 /\ s[Len(s)] = "\n" THEN SubSeq(s, 1, Len(s) - 1) ELSE s

\* re.match(hotp_valid_input, from_key), "^[cbdefghijklnrtuv0-9]{6,20}$"
hotp_valid_input(from_key) ==
    LET s == BeforeEnd(from_key)
    IN  /\ Len(s) \in InputMin..InputMax
        /\ \A i \in 1..Len(s) : s[i] \in ModhexChars \/ IsDigit(s[i])

\* re.match(totp_valid_input, from_key): the same pattern
totp_valid_input(from_key) == hotp_valid_input(from_key)

\* what a call gives when it raises instead of returning
BitsRaised == [raised |-> TRUE, uid |-> <<>>, otp |-> 0]

RECURSIVE DecimalValue(_)
DecimalValue(s) ==
    IF s = <<>> THEN 0
    ELSE DecimalValue(SubSeq(s, 1, Len(s) - 1)) * 10 + DigitValue(s[Len(s)])

\* int(text) for the texts the pattern lets through: surrounding whitespace
\* is dropped, decimal digits give their value, any other character raises
\* ValueError (NaN here)
int_text(text) ==
    LET s == BeforeEnd(text)
    IN  IF s # <<>> /\ \A i \in 1..Len(s) : IsDigit(s[i]) THEN DecimalValue(s) ELSE NaN

\* the longest run of characters of a class that starts s, at most max long
RECURSIVE Run(_, _, _)
Run(s, class, max) ==
    IF s = <<>> \/ max = 0 \/ s[1] \notin class THEN <<>>
    ELSE <<s[1]>> \o Run(Tail(s), class, max - 1)

\* a request without the uid parameter
NoUid == <<>>

\* get_oath_hotp_bits(params), with uid the value of params["uid"][0] when the
\* request has a uid and raw the value of params["hotp"][0]:
\*   re.match("^([cbdefghijklnrtuv]*)([0-9]{6,8})", raw) takes the modhex
\*   characters raw starts with, then at most 8 digits; with fewer than 6
\*   digits there m is None and m.groups() raises AttributeError
get_oath_hotp_bits(uid, raw) ==
    IF uid # NoUid
    THEN IF int_text(raw) = NaN THEN BitsRaised
         ELSE [raised |-> FALSE, uid |-> uid, otp |-> int_text(raw)]
    ELSE LET prefix == Run(raw, ModhexChars, Len(raw))
             digits == Run(SubSeq(raw, Len(prefix) + 1, Len(raw)), DigitSet, CodeMax)
         IN  IF Len(digits) < CodeMin THEN BitsRaised
             ELSE [raised |-> FALSE, uid |-> prefix, otp |-> int_text(digits)]

\* get_oath_totp_bits(params): the same code on params["totp"][0]
get_oath_totp_bits(uid, raw) == get_oath_hotp_bits(uid, raw)

\* validate_oath_hotp / validate_oath_totp up to the record lookup: the
\* response line returned, or no line when an exception ends the handler or
\* when the handler goes on to fetch the record and search
NoLine == "<none>"
OathName(mode) == IF mode = "hotp" THEN "OATH-HOTP" ELSE "OATH-TOTP"

validate_oath_bits(mode, uid, raw) ==
    LET lexOk == IF mode = "hotp" THEN hotp_valid_input(raw) ELSE totp_valid_input(raw)
        got == IF mode = "hotp" THEN get_oath_hotp_bits(uid, raw)
               ELSE get_oath_totp_bits(uid, raw)
    IN  IF ~lexOk
        THEN [end |-> "return", line |-> "ERR Invalid " \o OathName(mode) \o " OTP",
              uid |-> <<>>, otp |-> 0]
        ELSE IF got.raised
        THEN [end |-> "raise", line |-> NoLine, uid |-> <<>>, otp |-> 0]
        ELSE IF got.uid = <<>> \/ got.otp = 0
        THEN [end |-> "return", line |-> "ERR Invalid " \o OathName(mode) \o " input",
              uid |-> got.uid, otp |-> got.otp]
        ELSE [end |-> "search", line |-> NoLine, uid |-> got.uid, otp |-> got.otp]

\* longest raw value of the enumerated requests
MaxRawLen == 7

RECURSIVE Texts(_, _)
Texts(chars, n) ==
    IF n = 0 THEN {<<>>}
    ELSE {<<ch>> \o t : ch \in chars, t \in Texts(chars, n - 1)}

\* the raw values a client may send: every text over a modhex character and
\* the digits 0 and 1 of 5 to MaxRawLen characters, and a few others: a
\* character outside the pattern, a final newline, more than 20 characters,
\* a long uid before a code, more than 8 digits after a uid
RawValues ==
    UNION {Texts({"c", "0", "1"}, n) : n \in (InputMin - 1)..MaxRawLen}
    \cup {<<"c","c","x","1","2","3","4","5","6">>,
          <<"c","c","1","2","3","4","5","6","\n">>,
          <<"1","2","3","4","5","6","\n">>,
          <<"c","c","c","c","c","c","c","c","c","c","c","c","c","c","c","1","2","3","4","5","6">>,
          <<"u","b","f","t","c","d","c","d","c","k","c","f","0","0","0","0","0","0">>,
          <<"u","b","f","t","c","d","c","d","c","k","c","f","7","5","5","2","2","4">>,
          <<"c","c","1","2","3","4","5","6","7","8","9">>}

\* the uid parameter of a request: absent, or a non-empty value (parse_qs
\* drops a parameter with a blank value)
UidValues == {NoUid, <<"j","o","e">>}

NoOut == [end |-> "none", line |-> NoLine, uid |-> <<>>, otp |-> 0]
NoBits == [mode |-> "hotp", uid |-> NoUid, raw |-> <<>>, out |-> NoOut]

\* init_oath_token --test-oath-window, the number of counters tried for
\* --test-code
test_oath_window == 3

\* init_oath_token without --test-code (argparse leaves None)
NoTestCode == -1

\* init_oath_token is not run
NoEnrol == [uid |-> "", oath_c |-> 0, test_code |-> NoTestCode, force |-> FALSE, pc |-> "none"]

\* the server's start is not followed; decrypt_aead, keystore_unlock are not run
NoClients == [pc |-> "none"]
NoDec == [pc |-> "none"]
NoUnl == [pc |-> "none"]

\* no request is being followed and no tool is run
ToolsIdle ==
    /\ bits = NoBits
    /\ enrol = NoEnrol
    /\ clients = NoClients
    /\ dec = NoDec
    /\ unl = NoUnl

----------------------------------------------------------------------------
(* Request handlers *)

\* A connection between requests; the locals of a handler end with it.
Fresh ==
    [pc |-> "idle", mode |-> "", otp |-> 0, entry |-> NoRow,
     new_c |-> NotFound, rowcount |-> 0]

NothingSent == [by |-> NoReq, line |-> ""]

\* no OTP 2.0 request handled yet
NoVal == [params |-> <<>>, dev |-> "", out |-> [sig |-> <<TRUE, None>>, client_key |-> None,
          asked |-> FALSE, vres |-> <<>>, response |-> ""]]

\* the handler raised: no response line is written
NoResponse == "<exception>"

\* a query without routing keys: its handler inputs are not used
NoInput ==
    [oath |-> [lexOk |-> FALSE, uid |-> "", otp |-> 0, devOk |-> TRUE],
     params |-> <<<<"otp", <<GoodOtp>>>>>>, dev |-> "OK",
     pw |-> [complete |-> FALSE, answer |-> "none"]]

NoGet == [keys |-> {}, in |-> NoInput]

\* an AEAD as the server sees it: the nonce and key handle it was made with and
\* the plaintext inside are known to the device alone
Aead(nonce, kh, plain) == [nonce |-> nonce, kh |-> kh, plain |-> plain]
\* the parameters validate_pwhash needs
PwhashKeys == {"pwhash", "nonce", "aead", "kh"}
\* no password hash request is being repeated
NoPwh == [query |-> [has |-> {}, pwhash |-> "", nonce |-> "", aead |-> Aead("", 0, ""), kh |-> 0],
          first |-> None]

\* the command line of the documented examples: --otp --hotp --totp --pwhash
ServerArgs ==
    [mode_short_otp |-> FALSE, mode_otp |-> TRUE, mode_hotp |-> TRUE,
     mode_totp |-> TRUE, mode_pwhash |-> TRUE]

Init ==
    /\ db = [u \in Enrolled |-> Row(u, 0)]
    /\ wlock = NoReq
    /\ now = 0
    /\ req = [r \in Reqs |-> Fresh]
    /\ sent = NothingSent
    /\ maxOk = [u \in Enrolled |-> NotFound]
    /\ maxHotpOk = [u \in Enrolled |-> NotFound]
    /\ val = NoVal
    /\ args = ServerArgs
    /\ calls = {}
    /\ get = NoGet
    /\ pwh = NoPwh
    /\ StickIdle
    /\ ToolsIdle

\* the handler returns and do_GET writes the response line
Finish(r, response) ==
    /\ req' = [req EXCEPT ![r] = Fresh]
    /\ sent' = [by |-> r, line |-> response]

OathFunction(mode) == IF mode = "hotp" THEN "validate_oath_hotp" ELSE "validate_oath_totp"

\* (mutation) the search starts at counter 0
SearchStart_Zero(entry) == 0

\* (mutation) the search starts after the stored counter
SearchStart_Next(entry) == entry.oath_c + 1

\* the counter the HOTP search starts from: entry.data["oath_c"]
SearchStart(entry) == entry.oath_c

\* (mutation) one counter more is probed
SearchBound_PlusOne == look_ahead + 1

\* the number of counters the HOTP search probes: args.look_ahead
SearchBound == look_ahead

\* (mutation) one time step more is tolerated
SearchTolerance_PlusOne == tolerance + 1

\* the time steps the TOTP search tolerates on each side: args.tolerance
SearchTolerance == tolerance

\* validate_oath_hotp / validate_oath_totp up to the call of update_oath_hotp_c:
\* the input checks, entry = db.get(uid), and the search through the trust
\* device (devOk: the device answers; otherwise its exception leaves the handler)
OathValidate(r, mode, lexOk, uid, otp, devOk) ==
    /\ req[r].pc = "idle"
    /\ LET entry == ValOathDb_get(uid)
           secret == SecretOf(entry.key)
           found == IF mode = "hotp"
                    THEN hotp_search_for_oath_code(secret, SearchStart(entry), otp, SearchBound)
                    ELSE totp_search_for_oath_code(secret, otp, now, SearchTolerance)
           f == OathFunction(mode)
       IN  IF ~lexOk
           THEN Finish(r, "ERR Invalid " \o OathName(mode) \o " OTP") /\ calls' = {f}
           ELSE IF uid = "" \/ otp = 0
           THEN Finish(r, "ERR Invalid " \o OathName(mode) \o " input") /\ calls' = {f}
           ELSE IF entry = NoRow
           THEN Finish(r, "ERR Internal error") /\ calls' = {f, "ValOathDb.get"}
           ELSE IF ~devOk
           THEN Finish(r, NoResponse) /\ calls' = {f, "ValOathDb.get", "hsm"}
           ELSE IF found = NotFound
           THEN /\ Finish(r, "ERR Could not validate " \o OathName(mode) \o " OTP")
                /\ calls' = {f, "ValOathDb.get", "hsm"}
           ELSE /\ req' = [req EXCEPT ![r] = [Fresh EXCEPT !.pc = "update", !.mode = mode,
                              !.otp = otp, !.entry = entry, !.new_c = found]]
                /\ sent' = NothingSent
                /\ calls' = {f, "ValOathDb.get", "hsm"}
    /\ UNCHANGED <<db, wlock, now, maxOk, maxHotpOk, val, args, get, pwh, stickVars, toolVars>>

\* update_oath_hotp_c: c.execute(UPDATE ...), inside the connection's transaction;
\* SQLite lets one connection at a time write, until it commits
UpdateExecute(r) ==
    /\ req[r].pc = "update"
    /\ wlock = NoReq
    /\ wlock' = r
    /\ req' = [req EXCEPT ![r] = [@ EXCEPT !.pc = "commit",
                  !.rowcount = IF UpdateMatches(req[r].entry, req[r].new_c) THEN 1 ELSE 0]]
    /\ sent' = NothingSent
    /\ calls' = {"ValOathDb.update_oath_hotp_c"}
    /\ UNCHANGED <<db, now, maxOk, maxHotpOk, val, args, get, pwh, stickVars, toolVars>>

OkLine(mode, n) ==
    IF mode = "hotp" THEN "OK counter=" \o Hex04(n) ELSE "OK timecounter=" \o Hex04(n)

\* (mutation) a failed update is answered like a code that matched nothing
ReplayedLine_AsNoMatch(mode) == "ERR Could not validate " \o OathName(mode) \o " OTP"

\* the answer to an update that changed no row: "ERR replayed OATH-HOTP"
ReplayedLine(mode) == "ERR replayed " \o OathName(mode)

Max(a, b) == IF a > b THEN a ELSE b

\* update_oath_hotp_c: self.conn.commit(); return c.rowcount == 1, and the
\* handler's answer to it
UpdateCommit(r) ==
    /\ req[r].pc = "commit"
    /\ wlock = r
    /\ LET q == req[r]
           ok == q.rowcount = 1
       IN  /\ db' = UpdateApplied(q.entry.key, q.new_c, q.rowcount)
           /\ Finish(r, IF ok THEN OkLine(q.mode, q.new_c) ELSE ReplayedLine(q.mode))
           /\ maxOk' = IF ok THEN [maxOk EXCEPT ![q.entry.key] = Max(@, q.new_c)] ELSE maxOk
           /\ maxHotpOk' = IF ok /\ q.mode = "hotp"
                           THEN [maxHotpOk EXCEPT ![q.entry.key] = Max(@, q.new_c - 1)]
                           ELSE maxHotpOk
    /\ wlock' = NoReq
    /\ calls' = {"ValOathDb.update_oath_hotp_c"}
    /\ UNCHANGED <<now, val, args, get, pwh, stickVars, toolVars>>

\* do_GET with "otp" in params, OTP 2.0 enabled: validate_yubikey_otp
OtpRequest(r, params, dev) ==
    /\ req[r].pc = "idle"
    /\ LET out == validate_yubikey_otp(params, dev)
       IN  /\ Finish(r, out.response)
           /\ calls' = {"validate_yubikey_otp"} \cup (IF out.asked THEN {"hsm"} ELSE {})
    /\ UNCHANGED <<db, wlock, now, maxOk, maxHotpOk, val, args, get, pwh, stickVars, toolVars>>

\* do_GET with "pwhash" in params: validate_pwhash. complete: pwhash, nonce,
\* aead and kh are all present; answer: what hsm.validate_aead does
PwhashRequest(r, complete, answer) ==
    /\ req[r].pc = "idle"
    /\ Finish(r, IF ~complete \/ answer = "raises" THEN NoResponse
                 ELSE IF answer = "match" THEN "OK pwhash validated"
                 ELSE "ERR Could not validate pwhash")
    /\ calls' = {"validate_pwhash"} \cup (IF complete THEN {"hsm"} ELSE {})
    /\ UNCHANGED <<db, wlock, now, maxOk, maxHotpOk, val, args, get, pwh, stickVars, toolVars>>

\* the clock reaches the next time step
Tick ==
    /\ now < MaxNow
    /\ now' = now + 1
    /\ UNCHANGED <<db, wlock, req, maxOk, maxHotpOk, val, args, get, pwh, stickVars, toolVars>>
    /\ sent' = NothingSent
    /\ calls' = {}

(* Requests a client may send to the OTP 2.0 handler *)

Absent == "<absent>"
Opt(name, v) == IF v = Absent THEN <<>> ELSE <<<<name, <<v>>>>>>
Reverse(seq) == [i \in 1..Len(seq) |-> seq[Len(seq) + 1 - i]]

GoodNonce == "0123456789abcdef"

\* params without h; "otp" is always there (do_GET dispatches on it)
OtpBase(o, n, i, sl, t) ==
    Opt("otp", o) \o Opt("nonce", n) \o Opt("id", i) \o Opt("sl", sl) \o Opt("timestamp", t)

OtpBases ==
    {OtpBase(o, n, i, sl, t) : o \in {GoodOtp, "bad"}, n \in {Absent, GoodNonce, "short"},
                               i \in {Absent, "1", "01", "2", "x"},
                               sl \in {Absent, "100", "50"}, t \in {Absent, "1"}}

\* h: none, a wrong one, the one the registered client computes
HChoices(base) == {Absent, "bogus", make_signature(base, client_ids[1])}

WithH(base) ==
    UNION {{base \o Opt("h", h), Reverse(base \o Opt("h", h))} : h \in HChoices(base)}

OtpParams == UNION {WithH(base) : base \in OtpBases}

PwhashInputs ==
    {[complete |-> FALSE, answer |-> "none"]}
    \cup {[complete |-> TRUE, answer |-> a] : a \in {"match", "mismatch", "raises"}}

OtpParamsFew == {OtpBase(GoodOtp, GoodNonce, Absent, Absent, Absent)}

\* the HOTP/TOTP requests of the concurrent connections: every code of an
\* enrolled identity but 0, and the requests that end before the search
OathInputsFew == {in \in OathInputs : in.uid \notin Enrolled \/ in.otp # 0}

\* the password hash requests of the concurrent connections: an incomplete one
\* and one the device answers
PwhashInputsFew == {in \in PwhashInputs : in.answer \in {"none", "match"}}

Next ==
    \/ \E r \in DOMAIN req, mode \in {"hotp", "totp"}, in \in OathInputsFew :
          OathValidate(r, mode, in.lexOk, in.uid, in.otp, in.devOk)
    \/ \E r \in DOMAIN req : UpdateExecute(r)
    \/ \E r \in DOMAIN req : UpdateCommit(r)
    \/ \E r \in DOMAIN req, params \in OtpParamsFew, dev \in {"OK", "YSM_OTP_REPLAY"} :
          OtpRequest(r, params, dev)
    \/ \E r \in DOMAIN req, in \in PwhashInputsFew :
          PwhashRequest(r, in.complete, in.answer)
    \/ Tick

Spec == Init /\ [][Next]_vars

----------------------------------------------------------------------------
(* The OTP 2.0 handler over the requests a client may send and the answers *)
(* the device may give.                                                    *)

InitOtp ==
    /\ db = [u \in Enrolled |-> Row(u, 0)]
    /\ wlock = NoReq
    /\ now = 0
    /\ req = [r \in Reqs |-> Fresh]
    /\ sent = NothingSent
    /\ maxOk = [u \in Enrolled |-> NotFound]
    /\ maxHotpOk = [u \in Enrolled |-> NotFound]
    /\ \E params \in OtpParams, dev \in DevOutcomes :
           val = [NoVal EXCEPT !.params = params, !.dev = dev]
    /\ args = ServerArgs
    /\ calls = {}
    /\ get = NoGet
    /\ pwh = NoPwh
    /\ StickIdle
    /\ ToolsIdle

\* the request is received and answered
OtpValidate ==
    /\ val.out = NoVal.out
    /\ val' = [val EXCEPT !.out = validate_yubikey_otp(val.params, val.dev)]
    /\ UNCHANGED <<db, wlock, now, req, sent, maxOk, maxHotpOk, args, calls, get, pwh, stickVars, toolVars>>

NextOtp == OtpValidate

SpecOtp == InitOtp /\ [][NextOtp]_vars

----------------------------------------------------------------------------
(* The record store under arbitrary callers: each caller reads an entry    *)
(* with get and later calls update_oath_hotp_c(entry, new_c) with any      *)
(* new_c, over its own connection.                                         *)

Callers == {"c1", "c2", "c3"}

InitStore ==
    /\ db = [u \in Enrolled |-> Row(u, 0)]
    /\ wlock = NoReq
    /\ now = 0
    /\ req = [r \in Callers |-> Fresh]
    /\ sent = NothingSent
    /\ maxOk = [u \in Enrolled |-> NotFound]
    /\ maxHotpOk = [u \in Enrolled |-> NotFound]
    /\ val = NoVal
    /\ args = ServerArgs
    /\ calls = {}
    /\ get = NoGet
    /\ pwh = NoPwh
    /\ StickIdle
    /\ ToolsIdle

\* entry = db.get(key), kept by the caller for a later update_oath_hotp_c(entry, new_c)
StoreCall(r, key, new_c) ==
    /\ req[r].pc = "idle"
    /\ ValOathDb_get(key) # NoRow
    /\ req' = [req EXCEPT ![r] = [Fresh EXCEPT !.pc = "update", !.mode = "hotp",
                    !.entry = ValOathDb_get(key), !.new_c = new_c]]
    /\ sent' = NothingSent
    /\ calls' = {"ValOathDb.get"}
    /\ UNCHANGED <<db, wlock, now, maxOk, maxHotpOk, val, args, get, pwh, stickVars, toolVars>>

NextStore ==
    \/ \E r \in DOMAIN req, key \in Enrolled, new_c \in 0..MaxCtr : StoreCall(r, key, new_c)
    \/ \E r \in DOMAIN req : UpdateExecute(r)
    \/ \E r \in DOMAIN req : UpdateCommit(r)

SpecStore == InitStore /\ [][NextStore]_vars

(* The race: every caller has read the same stored counter and calls       *)
(* update_oath_hotp_c for the same key with the same larger new_c.         *)

InitRace ==
    \E s \in 0..MaxCtr, c \in 1..(MaxCtr + 1), key \in Enrolled :
        /\ s < c
        /\ db = [u \in Enrolled |-> Row(u, s)]
        /\ wlock = NoReq
        /\ now = 0
        /\ req = [r \in Callers |-> [Fresh EXCEPT !.pc = "update", !.mode = "hotp",
                       !.entry = Row(key, s), !.new_c = c]]
        /\ sent = NothingSent
        /\ maxOk = [u \in Enrolled |-> NotFound]
        /\ maxHotpOk = [u \in Enrolled |-> NotFound]
        /\ val = NoVal
        /\ args = ServerArgs
        /\ calls = {}
        /\ get = NoGet
        /\ pwh = NoPwh
        /\ StickIdle
        /\ ToolsIdle

NextRace ==
    \/ \E r \in DOMAIN req : UpdateExecute(r)
    \/ \E r \in DOMAIN req : UpdateCommit(r)

SpecRace == InitRace /\ [][NextRace]_vars

(* Two identities in the table: requests for either of them, with the codes *)
(* of both, over two connections.                                          *)

\* a second enrolled identity, with its own nonce, key handle and AEAD
Second == "ubftcdcdckcg"
Identities == Enrolled \cup {Second}

RowOf(u) ==
    IF u = Second
    THEN [key |-> u, nonce |-> "0a0b0c0d0e0f", key_handle |-> 8193, aead |-> "77aa", oath_c |-> 0]
    ELSE Row(u, 0)

InitFrame ==
    /\ db = [u \in Identities |-> RowOf(u)]
    /\ wlock = NoReq
    /\ now = 1
    /\ req = [r \in Reqs |-> Fresh]
    /\ sent = NothingSent
    /\ maxOk = [u \in Identities |-> NotFound]
    /\ maxHotpOk = [u \in Identities |-> NotFound]
    /\ val = NoVal
    /\ args = ServerArgs
    /\ calls = {}
    /\ get = NoGet
    /\ pwh = NoPwh
    /\ StickIdle
    /\ ToolsIdle

\* requests naming one of the identities, or an identity without a row, with a
\* code of either identity, and one request during which the device fails
FrameInputs ==
    {[lexOk |-> TRUE, uid |-> u, otp |-> HotpCode(SecretOf(v), k), devOk |-> TRUE] :
        u \in Identities \cup {Unknown}, v \in Identities, k \in 0..MaxFrameCtr}
    \cup {[lexOk |-> TRUE, uid |-> u, otp |-> 999, devOk |-> FALSE] : u \in Identities}

NextFrame ==
    \/ \E r \in DOMAIN req, mode \in {"hotp", "totp"}, in \in FrameInputs :
          OathValidate(r, mode, in.lexOk, in.uid, in.otp, in.devOk)
    \/ \E r \in DOMAIN req : UpdateExecute(r)
    \/ \E r \in DOMAIN req : UpdateCommit(r)
    \/ \E r \in DOMAIN req, params \in OtpParamsFew : OtpRequest(r, params, "OK")
    \/ \E r \in DOMAIN req, in \in PwhashInputsFew :
          PwhashRequest(r, in.complete, in.answer)

SpecFrame == InitFrame /\ [][NextFrame]_vars

----------------------------------------------------------------------------
(* validate_pwhash on the parameters of the query: one password hash       *)
(* request, repeated while HOTP requests advance the stored counter.       *)

\* pyhsm.defines.YSM_AEAD_MAC_SIZE
YSM_AEAD_MAC_SIZE == 8
\* chr(0x0)
Chr0 == "0"

\* len(aead.decode("hex")): the encrypted plaintext and the MAC
DecodedLen(aead) == Len(aead.plain) + YSM_AEAD_MAC_SIZE

\* s.ljust(width, fillchar): s is returned as it is when it is not shorter
RECURSIVE ljust(_, _, _)
ljust(s, width, fillchar) == IF Len(s) >= width THEN s ELSE ljust(s \o fillchar, width, fillchar)

\* hsm.validate_aead(nonce, key_handle, aead, cleartext): the device decrypts
\* the AEAD with the key of key_handle and the nonce, and compares
hsm_validate_aead(nonce, key_handle, aead, cleartext) ==
    aead.nonce = nonce /\ aead.kh = key_handle /\ aead.plain = cleartext

\* (mutation) a password hash is refused once the counter of the uid has moved
validate_pwhash_Counted(q, devUp) ==
    IF db[CHOOSE u \in DOMAIN db : TRUE].oath_c > 0 THEN "ERR replayed pwhash"
    ELSE IF ~(PwhashKeys \subseteq q.has) \/ ~devUp THEN NoResponse
    ELSE "OK pwhash validated"

\* validate_pwhash(params); devUp: the device answers, otherwise its exception
\* leaves the handler as the exception of get_pwhash_bits does
validate_pwhash(q, devUp) ==
    IF ~(PwhashKeys \subseteq q.has) THEN NoResponse
    ELSE LET plaintext_len == DecodedLen(q.aead) - YSM_AEAD_MAC_SIZE
             pw == ljust(q.pwhash, plaintext_len, Chr0)
         IN  IF ~devUp THEN NoResponse
             ELSE IF hsm_validate_aead(q.nonce, q.kh, q.aead, pw) THEN "OK pwhash validated"
             ELSE "ERR Could not validate pwhash"

\* do_GET with "pwhash" in params: the request a client repeats is handled
PwhashReplay(r, devUp) ==
    /\ req[r].pc = "idle"
    /\ LET line == validate_pwhash(pwh.query, devUp)
           complete == PwhashKeys \subseteq pwh.query.has
       IN  /\ Finish(r, line)
           /\ calls' = {"validate_pwhash"} \cup (IF complete THEN {"hsm"} ELSE {})
           /\ pwh' = [pwh EXCEPT !.first = IF @ = None /\ (devUp \/ ~complete) THEN line ELSE @]
    /\ UNCHANGED <<db, wlock, now, maxOk, maxHotpOk, val, args, get, stickVars, toolVars>>

\* the AEAD of the password hash "ab", made with nonce "0102" and key handle 1
\* for a plaintext of four bytes
TheAead == Aead("0102", 1, "ab00")

\* the password hash requests a client may repeat
PwhashQueries ==
    {[has |-> PwhashKeys, pwhash |-> p, nonce |-> n, aead |-> TheAead, kh |-> k] :
        p \in {"ab", "ab0", "abc", "ab000"}, n \in {"0102", "0103"}, k \in {1, 2}}
    \cup {[has |-> PwhashKeys \ {x}, pwhash |-> "ab", nonce |-> "0102", aead |-> TheAead, kh |-> 1] :
            x \in {"kh", "aead"}}

InitPwhash ==
    /\ db = [u \in Enrolled |-> Row(u, 0)]
    /\ wlock = NoReq
    /\ now = 0
    /\ req = [r \in Reqs |-> Fresh]
    /\ sent = NothingSent
    /\ maxOk = [u \in Enrolled |-> NotFound]
    /\ maxHotpOk = [u \in Enrolled |-> NotFound]
    /\ val = NoVal
    /\ args = ServerArgs
    /\ calls = {}
    /\ get = NoGet
    /\ \E q \in PwhashQueries : pwh = [query |-> q, first |-> None]
    /\ StickIdle
    /\ ToolsIdle

NextPwhash ==
    \/ \E r \in DOMAIN req, devUp \in BOOLEAN : PwhashReplay(r, devUp)
    \/ \E r \in DOMAIN req, u \in Enrolled, k \in 0..MaxCtr :
          OathValidate(r, "hotp", TRUE, u, HotpCode(SecretOf(u), k), TRUE)
    \/ \E r \in DOMAIN req : UpdateExecute(r)
    \/ \E r \in DOMAIN req : UpdateCommit(r)

SpecPwhash == InitPwhash /\ [][NextPwhash]_vars

----------------------------------------------------------------------------
(* do_GET: the dispatch of a request of the serving URL on the routing keys *)
(* of its query and on the modes enabled in args.                           *)

RoutingKeys == {"otp", "hotp", "totp", "pwhash"}

\* args as args_fixup lets the server start: at least one mode is enabled
AllArgs ==
    {a \in [{"mode_short_otp", "mode_otp", "mode_hotp", "mode_totp", "mode_pwhash"} -> BOOLEAN] :
        \E m \in DOMAIN a : a[m]}

\* (mutation) a mode that is not enabled is run all the same
Route_IgnoreFlags(keys) ==
    IF "otp" \in keys THEN (IF args.mode_short_otp THEN "short" ELSE "otp")
    ELSE IF "hotp" \in keys THEN "hotp"
    ELSE IF "totp" \in keys THEN "totp"
    ELSE IF "pwhash" \in keys THEN "pwhash"
    ELSE "none"

\* (mutation) a query with more than one routing key selects nothing
Route_ExactlyOne(keys) ==
    IF Cardinality(keys) > 1 THEN "none"
    ELSE IF "otp" \in keys
    THEN (IF args.mode_short_otp THEN "short"
          ELSE IF args.mode_otp THEN "otp" ELSE "'otp/otp2' disabled")
    ELSE IF "hotp" \in keys THEN (IF args.mode_hotp THEN "hotp" ELSE "'hotp' disabled")
    ELSE IF "totp" \in keys THEN (IF args.mode_totp THEN "totp" ELSE "'totp' disabled")
    ELSE IF "pwhash" \in keys THEN (IF args.mode_pwhash THEN "pwhash" ELSE "'pwhash' disabled")
    ELSE "none"

\* the if/elif chain of do_GET: the handler that is run, or what is disabled,
\* or "none" (res stays None)
Route(keys) ==
    IF "otp" \in keys
    THEN (IF args.mode_short_otp THEN "short"
          ELSE IF args.mode_otp THEN "otp" ELSE "'otp/otp2' disabled")
    ELSE IF "hotp" \in keys THEN (IF args.mode_hotp THEN "hotp" ELSE "'hotp' disabled")
    ELSE IF "totp" \in keys THEN (IF args.mode_totp THEN "totp" ELSE "'totp' disabled")
    ELSE IF "pwhash" \in keys THEN (IF args.mode_pwhash THEN "pwhash" ELSE "'pwhash' disabled")
    ELSE "none"

Handlers == {"short", "otp", "hotp", "totp", "pwhash"}

\* res is None: 403 Forbidden is sent, and no response line
Forbidden == "<403 Forbidden>"

Hex02(n) == PadLeft(HexStr(n), 2)

\* pyhsm.defines.status2str(e.status)
status2str(dev) == dev

\* validate_yubikey_otp_short: the answer, and whether the device was asked
validate_yubikey_otp_short(params, dev) ==
    LET from_key == Get(params, "otp")[1]
        res == DevResult
    IN  IF ~ykotp_valid_input(from_key) THEN [asked |-> FALSE, response |-> "ERR Invalid OTP"]
        ELSE IF dev = "OK"
        THEN [asked |-> TRUE,
              response |-> "OK counter=" \o Hex04(res.use_ctr) \o " low=" \o Hex04(res.ts_low)
                           \o " high=" \o Hex02(res.ts_high) \o " use=" \o Hex02(res.session_ctr)]
        ELSE [asked |-> TRUE, response |-> "ERR " \o status2str(dev)]

\* do_GET with "otp" in params, short OTP enabled
ShortOtpRequest(r, params, dev) ==
    /\ req[r].pc = "idle"
    /\ Finish(r, validate_yubikey_otp_short(params, dev).response)
    /\ calls' = {"validate_yubikey_otp_short"}
                 \cup (IF validate_yubikey_otp_short(params, dev).asked THEN {"hsm"} ELSE {})
    /\ UNCHANGED <<db, wlock, now, maxOk, maxHotpOk, val, args, get, pwh, stickVars, toolVars>>

\* do_GET where no handler is run: a mode that is not enabled, or no routing key
Rejected(r, route) ==
    /\ req[r].pc = "idle"
    /\ Finish(r, IF route = "none" THEN Forbidden ELSE "ERR " \o route)
    /\ calls' = {}
    /\ UNCHANGED <<db, wlock, now, maxOk, maxHotpOk, val, args, get, pwh, stickVars, toolVars>>

\* the other routing keys of the query are parameters for the handler as well
RECURSIVE ExtraPairs(_)
ExtraPairs(keys) ==
    IF keys = {} THEN <<>>
    ELSE LET k == CHOOSE x \in keys : \A y \in keys : Rank(x) <= Rank(y)
         IN  <<<<k, <<"123456">>>>>> \o ExtraPairs(keys \ {k})

QueryParams(keys, params) == params \o ExtraPairs(keys \ {"otp"})

\* a request: the routing keys of its query, and what the handler it reaches
\* is given (in.oath, or in.params and in.dev, or in.pw)
do_GET(r, keys, in) ==
    LET route == Route(keys)
    IN  IF route \in {"hotp", "totp"}
        THEN OathValidate(r, route, in.oath.lexOk, in.oath.uid, in.oath.otp, in.oath.devOk)
        ELSE IF route = "otp" THEN OtpRequest(r, QueryParams(keys, in.params), in.dev)
        ELSE IF route = "short" THEN ShortOtpRequest(r, QueryParams(keys, in.params), in.dev)
        ELSE IF route = "pwhash" THEN PwhashRequest(r, in.pw.complete, in.pw.answer)
        ELSE Rejected(r, route)

(* The requests of the dispatch *)

OathInputsSome ==
    {in \in OathInputs : in.otp \in {0, 999, HotpCode(SecretOf(in.uid), 0)}}

OtpBasesSome ==
    {OtpBase(o, n, i, Absent, Absent) : o \in {GoodOtp, "bad"}, n \in {Absent, GoodNonce},
                                        i \in {Absent, "1", "2"}}
    \cup {OtpBase(GoodOtp, "short", Absent, Absent, Absent),
          OtpBase(GoodOtp, GoodNonce, Absent, "100", Absent),
          OtpBase(GoodOtp, GoodNonce, "1", "100", "1")}

OtpParamsSome ==
    UNION {{base \o Opt("h", h) : h \in HChoices(base)} : base \in OtpBasesSome}

InputsFor(route) ==
    IF route \in {"hotp", "totp"} THEN {[NoInput EXCEPT !.oath = i] : i \in OathInputsSome}
    ELSE IF route = "otp"
    THEN {[NoInput EXCEPT !.params = p] : p \in OtpParamsSome}
         \cup {[NoInput EXCEPT !.params = OtpBase(GoodOtp, GoodNonce, Absent, Absent, Absent),
                               !.dev = d] : d \in DevOutcomes}
    ELSE IF route = "short"
    THEN {[NoInput EXCEPT !.params = p, !.dev = d] :
             p \in {OtpBase(o, Absent, Absent, Absent, Absent) : o \in {GoodOtp, "bad"}},
             d \in DevOutcomes}
    ELSE IF route = "pwhash" THEN {[NoInput EXCEPT !.pw = i] : i \in PwhashInputs}
    ELSE {NoInput}

Clients == {"g1"}

InitGet ==
    /\ db = [u \in Enrolled |-> Row(u, 0)]
    /\ wlock = NoReq
    /\ now = 0
    /\ req = [r \in Clients |-> Fresh]
    /\ sent = NothingSent
    /\ maxOk = [u \in Enrolled |-> NotFound]
    /\ maxHotpOk = [u \in Enrolled |-> NotFound]
    /\ val = NoVal
    /\ args \in AllArgs
    /\ calls = {}
    /\ \E keys \in SUBSET RoutingKeys :
          \E in \in InputsFor(Route(keys)) : get = [keys |-> keys, in |-> in]
    /\ pwh = NoPwh
    /\ StickIdle
    /\ ToolsIdle

\* the client sends its query, any number of times
NextGet ==
    \/ \E r \in DOMAIN req : do_GET(r, get.keys, get.in)
    \/ \E r \in DOMAIN req : UpdateExecute(r)
    \/ \E r \in DOMAIN req : UpdateCommit(r)

SpecGet == InitGet /\ [][NextGet]_vars

----------------------------------------------------------------------------
(* Stick daemon: YHSM_Stick_Server *)

\* the validation server's state, which the daemon does not touch
valVars == <<db, wlock, now, req, sent, maxOk, maxHotpOk, val, args, calls, get, pwh>>

\* serve: cs, address = self.socket.accept(); the thread starts client_handler
Accept(c) ==
    /\ handler[c].pc = "closed"
    /\ handler' = [handler EXCEPT ![c] = Started]
    /\ ran' = NoRun
    /\ UNCHANGED <<lock, stick, valVars, toolVars>>

\* (mutation) finally closes the socket without releasing the lock
HandlerEnds_Leak(c, reply) ==
    /\ handler' = [handler EXCEPT ![c] = Closed]
    /\ lock' = lock
    /\ ran' = [NoRun EXCEPT !.by = c, !.reply = reply]

\* client_handler leaves its loop, by break or by an exception; finally:
\* if has_lock: self.lock.release(); the socket is closed. reply is what the
\* step wrote to the socket before
HandlerEnds(c, reply) ==
    /\ handler' = [handler EXCEPT ![c] = Closed]
    /\ lock' = IF handler[c].has_lock THEN FALSE ELSE lock
    /\ ran' = [NoRun EXCEPT !.by = c, !.reply = reply,
                            !.released = IF handler[c].has_lock THEN 1 ELSE 0]

\* (mutation) any command but LOCK is taken as if the lock were held
HoldsLock_Always(c) == TRUE

\* elif has_lock:
HoldsLock(c) == handler[c].has_lock

\* client_handler: one line is read and dispatched on cmd = data[0]
ReadLine(c, line) ==
    /\ handler[c].pc = "readline"
    /\ IF line = BadLine
       THEN HandlerEnds(c, None)
       ELSE IF line = CMD_LOCK
       THEN /\ handler' = [handler EXCEPT ![c].pc =
                              IF handler[c].has_lock THEN "readline" ELSE "acquire"]
            /\ ran' = [NoRun EXCEPT !.by = c]
            /\ lock' = lock
       ELSE IF HoldsLock(c)
       THEN IF line = CMD_UNLOCK
            THEN /\ lock' = FALSE
                 /\ handler' = [handler EXCEPT ![c].has_lock = FALSE]
                 /\ ran' = [NoRun EXCEPT !.by = c, !.released = 1]
            ELSE /\ handler' = [handler EXCEPT ![c].pc = "invoke", ![c].cmd = line]
                 /\ ran' = [NoRun EXCEPT !.by = c]
                 /\ lock' = lock
       ELSE HandlerEnds(c, ErrNoLock)
    /\ UNCHANGED <<stick, valVars, toolVars>>

\* self.lock.acquire() returns, has_lock = True
Acquire(c) ==
    /\ handler[c].pc = "acquire"
    /\ lock = FALSE
    /\ lock' = TRUE
    /\ handler' = [handler EXCEPT ![c].pc = "readline", ![c].has_lock = TRUE]
    /\ ran' = [NoRun EXCEPT !.by = c, !.acquired = TRUE]
    /\ UNCHANGED <<stick, valVars, toolVars>>

\* (mutation) the handle is kept when the command raises
StickAfter_Kept(handle, raised) == handle

\* self._stick after the command: None when anything in the try block raised
StickAfter(handle, raised) == IF raised THEN None ELSE handle

\* invoke(cmd, *args). openOk: pyhsm.stick.YHSM_Stick(self.device) succeeds;
\* cmdOk: the device method returns. Gives res, self._stick afterwards, whether
\* a handle was opened, and the device method that was called
invoke(cmd, openOk, cmdOk) ==
    IF stick = None /\ ~openOk
    THEN [res |-> Raised, stick |-> StickAfter(None, TRUE), opened |-> FALSE, command |-> None]
    ELSE IF cmd \notin DOMAIN COMMANDS
    THEN [res |-> Raised, stick |-> StickAfter(Handle, TRUE), opened |-> stick = None,
          command |-> None]
    ELSE [res |-> IF cmdOk THEN Answer ELSE Raised, stick |-> StickAfter(Handle, ~cmdOk),
          opened |-> stick = None, command |-> COMMANDS[cmd]]

\* client_handler: res = self.invoke(cmd, *args)
Invoke(c, openOk, cmdOk) ==
    /\ handler[c].pc = "invoke"
    /\ LET out == invoke(handler[c].cmd, openOk, cmdOk)
       IN  /\ stick' = out.stick
           /\ handler' = [handler EXCEPT ![c].pc = "reply", ![c].res = out.res]
           /\ ran' = [NoRun EXCEPT !.by = c, !.opened = out.opened, !.command = out.command]
    /\ UNCHANGED <<lock, valVars, toolVars>>

\* client_handler: json.dump(pack_data(res), socket_file); write; flush.
\* json.dump raises on an exception object, and the write raises when the
\* client is gone (connected = FALSE)
Reply(c, connected) ==
    /\ handler[c].pc = "reply"
    /\ IF handler[c].res = Raised \/ ~connected
       THEN HandlerEnds(c, None)
       ELSE /\ handler' = [handler EXCEPT ![c].pc = "readline", ![c].res = None]
            /\ ran' = [NoRun EXCEPT !.by = c, !.reply = handler[c].res]
            /\ lock' = lock
    /\ UNCHANGED <<stick, valVars, toolVars>>

InitStick ==
    /\ db = [u \in Enrolled |-> Row(u, 0)]
    /\ wlock = NoReq
    /\ now = 0
    /\ req = [r \in Reqs |-> Fresh]
    /\ sent = NothingSent
    /\ maxOk = [u \in Enrolled |-> NotFound]
    /\ maxHotpOk = [u \in Enrolled |-> NotFound]
    /\ val = NoVal
    /\ args = ServerArgs
    /\ calls = {}
    /\ get = NoGet
    /\ pwh = NoPwh
    /\ StickIdle
    /\ ToolsIdle

NextStick ==
    \/ \E c \in Conns : Accept(c)
    \/ \E c \in Conns, line \in Lines : ReadLine(c, line)
    \/ \E c \in Conns : Acquire(c)
    \/ \E c \in Conns, openOk \in BOOLEAN, cmdOk \in BOOLEAN : Invoke(c, openOk, cmdOk)
    \/ \E c \in Conns, connected \in BOOLEAN : Reply(c, connected)

SpecStick == InitStick /\ [][NextStick]_vars

\* a thread blocked in self.lock.acquire() gets the lock if it stays free
SpecStickFair == SpecStick /\ \A c \in Conns : WF_vars(Acquire(c))

----------------------------------------------------------------------------
(* Properties of the record store and of HOTP validation *)

TheUid == "ubftcdcdckcf"

\* update_oath_hotp_c returns on connection r in this step
Returns(r) == req[r].pc = "commit" /\ req'[r].pc = "idle"
ReturnsTrue(r) == Returns(r) /\ req[r].rowcount = 1

\* C1: once update_oath_hotp_c has returned True for a key with value c1, a
\* call for that key with c2 <= c1 never returns True again: every value it
\* returns True for is larger than all the values it returned True for before.
C1_Monotonicity ==
    [][\A r \in DOMAIN req :
          ReturnsTrue(r) => req[r].new_c > maxOk[req[r].entry.key]]_vars

\* a call made after a success (its entry shows the value then stored) with a
\* new_c that is not larger has been executed and has matched no row
C1_Witness ==
    \E r \in DOMAIN req :
        /\ req[r].pc = "commit" /\ req[r].rowcount = 0
        /\ maxOk[TheUid] >= 1
        /\ req[r].entry.oath_c = maxOk[TheUid]
        /\ req[r].new_c <= maxOk[TheUid]

C3_CheckAndSet ==
    [][\A r \in DOMAIN req :
          Returns(r) =>
             LET key == req[r].entry.key
                 c == req[r].new_c
             IN  IF c > db[key].oath_c
                 THEN req[r].rowcount = 1 /\ db'[key].oath_c = c
                      /\ sent'.line = OkLine(req[r].mode, c)
                 ELSE req[r].rowcount = 0 /\ db' = db
                      /\ sent'.line = ReplayedLine(req[r].mode)]_vars

\* a call whose new_c is larger than the counter its caller read, and not
\* larger than the stored one, has matched no row
C3_Witness ==
    \E r \in DOMAIN req :
        /\ req[r].pc = "commit" /\ req[r].rowcount = 0
        /\ req[r].new_c > req[r].entry.oath_c
        /\ req[r].new_c <= db[req[r].entry.key].oath_c

\* C4: no step of any HOTP, TOTP, OTP or pwhash request lowers the stored
\* counter of an enrolled identity.
C4_NeverDecreases ==
    [][\A u \in Enrolled : db'[u].oath_c >= db[u].oath_c]_vars

\* an update with a value below the stored counter has been executed
C4_Witness ==
    \E r \in DOMAIN req :
        /\ req[r].pc = "commit"
        /\ req[r].new_c < db[req[r].entry.key].oath_c

\* a well-formed HOTP or TOTP request of identity u presenting the code of counter k
CodeOf(u, k) == [lexOk |-> TRUE, uid |-> u, otp |-> HotpCode(SecretOf(u), k), devOk |-> TRUE]

\* a request is taken up on r in this step
TakenUp(r) == req[r].pc = "idle" /\ (sent'.by = r \/ req'[r].pc # "idle")

\* the HOTP request on r, with these inputs, is taken up in this step
HotpStep(r, in) ==
    /\ TakenUp(r) /\ OathFunction("hotp") \in calls'
    /\ OathValidate(r, "hotp", in.lexOk, in.uid, in.otp, in.devOk)

\* C5: a HOTP request whose code matched counter k within the window of the
\* stored counter s, and whose update finds s still stored, is answered
\* "OK counter=<k+1>" and k+1 is stored; a HOTP request presenting the code of
\* counter k when k+1 is stored is answered "ERR Could not validate OATH-HOTP
\* OTP" and leaves the table as it is.
C5_AcceptThenReplay ==
    [][/\ \A r \in DOMAIN req :
            (/\ Returns(r) /\ req[r].mode = "hotp"
             /\ db[req[r].entry.key].oath_c = req[r].entry.oath_c)
            => LET k == req[r].new_c - 1
                   s == req[r].entry.oath_c
               IN  /\ req[r].otp = HotpCode(SecretOf(req[r].entry.key), k)
                   /\ s <= k /\ k < s + look_ahead
                   /\ sent'.line = "OK counter=" \o Hex04(k + 1)
                   /\ db'[req[r].entry.key].oath_c = k + 1
       /\ \A r \in DOMAIN req, u \in Enrolled, k \in 0..MaxCtr :
            (db[u].oath_c = k + 1 /\ HotpStep(r, CodeOf(u, k)))
            => /\ sent'.line = "ERR Could not validate OATH-HOTP OTP"
               /\ db' = db]_vars

\* the code of counter 3 has been accepted ("OK counter=0004"), 4 is stored,
\* and a HOTP request has just been answered that no code could be validated
C5_Witness ==
    /\ maxHotpOk[TheUid] = 3
    /\ db[TheUid].oath_c = 4
    /\ sent.line = "ERR Could not validate OATH-HOTP OTP"

\* C6: a HOTP request is answered OK only for a matched counter larger than
\* every counter a HOTP request of that identity was answered OK for before, in
\* every interleaving: no counter is accepted twice, none at or below an
\* accepted one.
C6_NoCounterAcceptedTwice ==
    [][\A r \in DOMAIN req :
          (/\ Returns(r) /\ req[r].mode = "hotp"
           /\ sent'.line = OkLine("hotp", req[r].new_c))
          => req[r].new_c - 1 > maxHotpOk[req[r].entry.key]]_vars

\* a HOTP request whose search matched has lost against an accepted one
C6_Witness ==
    /\ sent.line = "ERR replayed OATH-HOTP"
    /\ maxHotpOk[TheUid] >= 0
    /\ db[TheUid].oath_c = maxHotpOk[TheUid] + 1

----------------------------------------------------------------------------
(* Properties of the signature authenticator and of the OTP 2.0 handler *)

\* the request in val has been answered
Handled == val.out # NoVal.out

Without(d, k) == SelectSeq(d, LAMBDA p : p[1] # k)
Swap(d, i, j) == [n \in 1..Len(d) |-> IF n = i THEN d[j] ELSE IF n = j THEN d[i] ELSE d[n]]

\* the request carries the id of a client of the table
Registered(params) ==
    Has(params, "id") /\ int(Get(params, "id")[1]) \in DOMAIN client_ids

\* the signature the client of the request's id computes for the request
ExpectedSignature(params) ==
    make_signature(Without(params, "h"), client_ids[int(Get(params, "id")[1])])

\* C7: for a request carrying a registered client id, check_signature reports
\* True iff the request has an h value equal to make_signature over the
\* parameters without h under that client's shared secret.
C7_SignatureRoundTrip ==
    (Handled /\ Registered(val.params))
    => ((val.out.sig[1] = TRUE)
        <=> (/\ Has(val.params, "h")
             /\ Get(val.params, "h")[1] = ExpectedSignature(val.params)))

\* C8: a request with a registered client id and an h value that is not the
\* expected signature is rejected: the device is not asked and the status of
\* the response is not OK.
C8_BadSignatureRejected ==
    (/\ Handled /\ Registered(val.params) /\ Has(val.params, "h")
     /\ Get(val.params, "h")[1] # ExpectedSignature(val.params))
    => (~val.out.asked /\ Get(val.out.vres, "status") # <<"OK">>)

\* C9: make_signature gives the same signature whatever the order of the
\* name/value pairs in the mapping, and whatever the h field holds, or without it.
C9_OrderIndependence ==
    \A d \in {val.params, val.out.vres}, key \in {client_ids[1], NullKey} :
        /\ \A i, j \in 1..Len(d) :
              make_signature(Swap(d, i, j), key) = make_signature(d, key)
        /\ \A hv \in {"bogus", "hmac{}{}"} :
              make_signature(DictSet(d, "h", <<hv>>), key) = make_signature(d, key)
        /\ make_signature(Without(d, "h"), key) = make_signature(d, key)

\* a request of four fields, h among them, held in an order that is not the
\* sorted one, has been answered
C9_Witness ==
    /\ Handled
    /\ Len(val.params) >= 4
    /\ Has(val.params, "h")
    /\ Keys(val.params) # sorted(Keys(val.params))

\* C10: a request carrying a client id that is not in the client table is
\* rejected without the device being asked, and its response holds an h field:
\* the signature of the other response fields under the null key.
C10_UnknownClientSigned ==
    (Handled /\ Has(val.params, "id") /\ ~Registered(val.params))
    => /\ ~val.out.asked
       /\ Get(val.out.vres, "status") = <<"NO_SUCH_CLIENT">>
       /\ val.out.client_key = NullKey
       /\ Has(val.out.vres, "h")
       /\ Get(val.out.vres, "h") = <<make_signature(Without(val.out.vres, "h"), NullKey)>>
       /\ val.out.response
             = Join(PairStrings(val.out.vres, sorted(Keys(val.out.vres))), "\n")

\* the response to a well-formed request of the unknown client 2, line by line
C10_Witness ==
    /\ val.params = <<<<"otp", <<GoodOtp>>>>, <<"nonce", <<GoodNonce>>>>, <<"id", <<"2">>>>>>
    /\ val.out.response
         = "h=hmac{<chr(0)>}{nonce=0123456789abcdef&otp=ccccccccccccdefghijklnrtuvcbdefg"
           \o "&status=NO_SUCH_CLIENT}"
           \o "\nnonce=0123456789abcdef"
           \o "\notp=ccccccccccccdefghijklnrtuvcbdefg"
           \o "\nstatus=NO_SUCH_CLIENT"

\* the names of a dict, as a set
KeySet(d) == {d[i][1] : i \in 1..Len(d)}

\* the id of a client that is not in the table
UnregisteredId == "2"

\* C11: a request with a registered client id and a wrong h, and the same
\* request with an unregistered client id, get responses with the same fields,
\* and the same value in every field other than h.
C11_UnknownClientOpacity ==
    (/\ Handled /\ Registered(val.params) /\ Has(val.params, "h")
     /\ Get(val.params, "h")[1] # ExpectedSignature(val.params))
    => LET wrong == val.out.vres
           unknown == validate_yubikey_otp(DictSet(val.params, "id", <<UnregisteredId>>),
                                           val.dev).vres
       IN  /\ KeySet(wrong) = KeySet(unknown)
           /\ \A k \in KeySet(wrong) \ {"h"} : Get(wrong, k) = Get(unknown, k)

\* the key the response is to be signed with: the shared secret of the
\* request's client, the null key if the request identifies no client
ResponseKey(params) ==
    IF Registered(params) THEN client_ids[int(Get(params, "id")[1])] ELSE NullKey

\* C12: every OTP 2.0 response holds an h field, the signature of the other
\* response fields under the client's shared secret, or under the null key if
\* no client was identified, and the response text gives the fields sorted by name.
C12_EveryResponseSigned ==
    Handled
    => /\ Has(val.out.vres, "h")
       /\ Get(val.out.vres, "h")
            = <<make_signature(Without(val.out.vres, "h"), ResponseKey(val.params))>>
       /\ val.out.response
            = Join(PairStrings(val.out.vres, sorted(Keys(val.out.vres))), "\n")

----------------------------------------------------------------------------
(* Properties of the candidate search as the handlers use it *)

\* a well-formed request of identity u presenting a code of no counter
JunkOf(u) == [lexOk |-> TRUE, uid |-> u, otp |-> 999, devOk |-> TRUE]

\* the TOTP request on r, with these inputs, is taken up in this step
TotpStep(r, in) ==
    /\ TakenUp(r) /\ OathFunction("totp") \in calls'
    /\ OathValidate(r, "totp", in.lexOk, in.uid, in.otp, in.devOk)

\* C13: with counter c stored and window w, a HOTP request presenting the code
\* of counter c+w-1 is matched and, its update finding c still stored, answered
\* "OK counter=<c+w>" with c+w stored; a HOTP request presenting the code of
\* counter c+w is answered "ERR Could not validate OATH-HOTP OTP" and the stored
\* counter stays c.
C13_HotpWindowBoundary ==
    [][\A r \in DOMAIN req, u \in Enrolled :
          LET c == db[u].oath_c
              w == look_ahead
          IN  /\ HotpStep(r, CodeOf(u, c + w - 1))
                 => /\ req'[r].pc = "update"
                    /\ req'[r].entry = db[u]
                    /\ req'[r].new_c = c + w
              /\ (/\ Returns(r) /\ req[r].mode = "hotp" /\ req[r].entry = db[u]
                  /\ req[r].otp = HotpCode(SecretOf(u), c + w - 1))
                 => /\ sent'.line = "OK counter=" \o Hex04(c + w)
                    /\ db'[u].oath_c = c + w
              /\ HotpStep(r, CodeOf(u, c + w))
                 => /\ sent' = [by |-> r, line |-> "ERR Could not validate OATH-HOTP OTP"]
                    /\ req'[r] = Fresh
                    /\ db' = db]_vars

\* the code of the last counter of the window has been matched and its update
\* has advanced the stored counter by the whole window
C13_Witness ==
    \E r \in DOMAIN req :
        /\ req[r].pc = "commit" /\ req[r].mode = "hotp" /\ req[r].rowcount = 1
        /\ req[r].entry.oath_c >= 1
        /\ req[r].new_c = req[r].entry.oath_c + look_ahead
        /\ req[r].otp = HotpCode(SecretOf(req[r].entry.key), req[r].new_c - 1)

\* C14: what a HOTP request hands to the record store is m+1 for the first
\* counter m of s, s+1, .., s+w-1 whose code is the presented one, s being the
\* stored counter the request read, so it is larger than s; the code of s
\* itself is matched; a code of no counter of the window gives no integer, and
\* nothing is handed to the store.
C14_SearchReturnsNextCounter ==
    [][\A r \in DOMAIN req :
          /\ (req[r].pc = "idle" /\ req'[r].pc = "update" /\ req'[r].mode = "hotp")
             => LET q == req'[r]
                    s == q.entry.oath_c
                    m == q.new_c - 1
                    secret == SecretOf(q.entry.key)
                IN  /\ q.entry = db[q.entry.key]
                    /\ q.new_c > s
                    /\ m \in s..(s + look_ahead - 1)
                    /\ HotpCode(secret, m) = q.otp
                    /\ \A k \in s..(m - 1) : HotpCode(secret, k) # q.otp
          /\ \A u \in Enrolled :
                /\ HotpStep(r, CodeOf(u, db[u].oath_c))
                   => req'[r].pc = "update" /\ req'[r].new_c = db[u].oath_c + 1
                /\ \A in \in {JunkOf(u), CodeOf(u, db[u].oath_c - 1)} :
                      (/\ HotpStep(r, in) /\ in.otp # 0
                       /\ \A k \in db[u].oath_c..(db[u].oath_c + look_ahead - 1) :
                             HotpCode(SecretOf(u), k) # in.otp)
                      => /\ sent'.line = "ERR Could not validate OATH-HOTP OTP"
                         /\ req'[r] = Fresh]_vars

\* a request that read the stored counter 2 has matched the second counter of
\* its window and is about to hand 4 to the record store
C14_Witness ==
    \E r \in DOMAIN req :
        /\ req[r].pc = "update" /\ req[r].mode = "hotp"
        /\ req[r].entry.oath_c = 2
        /\ req[r].new_c = 4

C16_TotpReplaySafety ==
    [][\A r \in DOMAIN req :
          (Returns(r) /\ req[r].mode = "totp")
          => LET key == req[r].entry.key
                 T == req[r].new_c
             IN  /\ IF T > db[key].oath_c
                    THEN /\ sent'.line = "OK timecounter=" \o Hex04(T)
                         /\ db'[key].oath_c = T
                    ELSE /\ sent'.line = "ERR replayed OATH-TOTP"
                         /\ db' = db
                 /\ T <= maxOk[key] => sent'.line = "ERR replayed OATH-TOTP"
                 /\ sent'.line = "OK timecounter=" \o Hex04(T) => T > maxOk[key]]_vars

\* a TOTP request has just been answered OK for a time counter that a
\* concurrent TOTP request has matched as well and is about to hand to the store
C16_Witness ==
    /\ maxOk[TheUid] >= 1
    /\ sent.line = "OK timecounter=" \o Hex04(maxOk[TheUid])
    /\ \E r \in DOMAIN req :
          /\ req[r].pc = "update" /\ req[r].mode = "totp"
          /\ req[r].new_c = maxOk[TheUid]

----------------------------------------------------------------------------
(* Properties of the dispatch *)

\* the query in get is taken up on connection r in this step
GetStep(r) == do_GET(r, get.keys, get.in)

ValidationFunctions ==
    {"validate_yubikey_otp_short", "validate_yubikey_otp", "validate_oath_hotp",
     "validate_oath_totp", "validate_pwhash"}

StoreCalls == {"ValOathDb.get", "ValOathDb.update_oath_hotp_c"}

\* the first of otp, hotp, totp, pwhash that the query carries
FirstKey(keys) ==
    IF "otp" \in keys THEN "otp" ELSE IF "hotp" \in keys THEN "hotp"
    ELSE IF "totp" \in keys THEN "totp" ELSE "pwhash"

FunctionsOf(key) ==
    IF key = "otp" THEN {"validate_yubikey_otp_short", "validate_yubikey_otp"}
    ELSE IF key = "hotp" THEN {"validate_oath_hotp"}
    ELSE IF key = "totp" THEN {"validate_oath_totp"}
    ELSE {"validate_pwhash"}

\* the mode of a validation function is enabled
EnabledFor(f) ==
    IF f = "validate_yubikey_otp_short" THEN args.mode_short_otp
    ELSE IF f = "validate_yubikey_otp" THEN args.mode_otp
    ELSE IF f = "validate_oath_hotp" THEN args.mode_hotp
    ELSE IF f = "validate_oath_totp" THEN args.mode_totp
    ELSE args.mode_pwhash

DisabledLine(key) ==
    IF key = "otp" THEN "ERR 'otp/otp2' disabled" ELSE "ERR '" \o key \o "' disabled"

\* the query is answered and nothing else has happened
AnsweredWith(r, line) ==
    /\ sent' = [by |-> r, line |-> line]
    /\ req'[r] = Fresh
    /\ db' = db /\ wlock' = wlock

\* C17 (as stated): a query that carries none or more than one of the routing
\* keys is rejected and no validation function is run.
C17_ExactlyOneRoutingKey ==
    [][\A r \in DOMAIN req :
          (GetStep(r) /\ Cardinality(get.keys) # 1)
          => /\ calls' \cap ValidationFunctions = {}
             /\ \E line \in {Forbidden} \cup {DisabledLine(k) : k \in RoutingKeys} :
                   AnsweredWith(r, line)]_vars

\* C17 (amended): the mode is that of the first of otp, hotp, totp, pwhash the
\* query carries, whatever other routing keys it carries: no function of
\* another mode is run, the function of that mode is run if the mode is
\* enabled, and the query is refused as disabled if it is not; a query with
\* none of the keys gets 403 and no response line, and no function is run.
C17_FirstRoutingKeySelects ==
    [][\A r \in DOMAIN req :
          GetStep(r)
          => IF get.keys = {}
             THEN AnsweredWith(r, Forbidden) /\ calls' = {}
             ELSE LET k == FirstKey(get.keys)
                      run == calls' \cap ValidationFunctions
                  IN  /\ run \subseteq FunctionsOf(k)
                      /\ IF \E f \in FunctionsOf(k) : EnabledFor(f)
                         THEN Cardinality(run) = 1
                         ELSE run = {} /\ AnsweredWith(r, DisabledLine(k))]_vars

\* a query carrying hotp, totp and pwhash has been taken up by validate_oath_hotp
C17_Witness ==
    /\ get.keys = {"hotp", "totp", "pwhash"}
    /\ "validate_oath_hotp" \in calls
    /\ args.mode_totp /\ args.mode_pwhash

\* C18: a query whose mode is not enabled is answered "ERR '<mode>' disabled",
\* with no call of the device and none of the record store; and a validation
\* function is run, and a counter update made, only for a mode that is enabled.
C18_DisabledModeRejected ==
    [][/\ \A r \in DOMAIN req :
            GetStep(r)
            => /\ (get.keys # {} /\ \A f \in FunctionsOf(FirstKey(get.keys)) : ~EnabledFor(f))
                  => /\ AnsweredWith(r, DisabledLine(FirstKey(get.keys)))
                     /\ calls' = {}
               /\ \A f \in calls' \cap ValidationFunctions : EnabledFor(f)
       /\ (calls' \cap (StoreCalls \cup {"hsm"}) # {})
          => \E f \in ValidationFunctions :
                /\ EnabledFor(f)
                /\ \/ f \in calls'
                   \/ \E r \in DOMAIN req :
                         req[r].pc # "idle" /\ OathFunction(req[r].mode) = f]_vars

\* a hotp query has been refused while the totp and pwhash modes are enabled
C18_Witness ==
    /\ get.keys = {"hotp"}
    /\ ~args.mode_hotp /\ args.mode_totp /\ args.mode_pwhash
    /\ sent.line = "ERR 'hotp' disabled"
    /\ calls = {}

\* C19: a query whose code does not match the pattern of its mode is rejected
\* with no call of the device and none of the record store; and the OTP 2.0
\* handler asks the device only for a query whose otp matches the pattern,
\* whose nonce is there with 16 to 40 characters, whose sl (if any) is
\* accepted and whose signature check reports True.
C19_ValidationBeforeDevice ==
    [][\A r \in DOMAIN req :
          GetStep(r)
          => LET route == Route(get.keys)
                 params == QueryParams(get.keys, get.in.params)
                 badOtp == ~ykotp_valid_input(Get(params, "otp")[1])
             IN  /\ (route \in {"hotp", "totp"} /\ ~get.in.oath.lexOk)
                    => /\ AnsweredWith(r, "ERR Invalid " \o OathName(route) \o " OTP")
                       /\ calls' \cap (StoreCalls \cup {"hsm"}) = {}
                 /\ (route = "short" /\ badOtp)
                    => /\ AnsweredWith(r, "ERR Invalid OTP")
                       /\ calls' \cap (StoreCalls \cup {"hsm"}) = {}
                 /\ (route = "otp" /\ badOtp)
                    => /\ AnsweredWith(r, validate_yubikey_otp(params, get.in.dev).response)
                       /\ Get(validate_yubikey_otp(params, get.in.dev).vres, "status")
                             \in {<<"BAD_OTP">>, <<"MISSING_PARAMETER">>, <<"BACKEND_ERROR">>,
                                  <<"NO_SUCH_CLIENT">>, <<"BAD_SIGNATURE">>}
                       /\ calls' \cap (StoreCalls \cup {"hsm"}) = {}
                 /\ (route = "otp" /\ "hsm" \in calls')
                    => /\ ~badOtp
                       /\ Has(params, "nonce")
                       /\ Len(Get(params, "nonce")[1]) \in 16..40
                       /\ Has(params, "sl")
                          => \/ ListEqualsStr(Get(params, "sl"), "100")
                             \/ ListEqualsStr(Get(params, "sl"), "secure")
                       /\ check_signature(params)[1] = TRUE]_vars

\* an OTP 2.0 query with a nonce and an otp that does not match the pattern
\* has been answered, and the device has not been asked
C19_Witness ==
    /\ Route(get.keys) = "otp"
    /\ Get(get.in.params, "otp") = <<"bad">>
    /\ Has(get.in.params, "nonce")
    /\ sent.by # NoReq
    /\ calls = {"validate_yubikey_otp"}

\* s begins with prefix
StartsWith(s, prefix) == Len(s) >= Len(prefix) /\ SubSeq(s, 1, Len(prefix)) = prefix

\* C20: every query is answered with one response line, an OK line or an ERR
\* line, whatever its parameters, the modes enabled, and what the record store
\* and the device do. (The name=value lines of the OTP 2.0 handler, and the
\* 403 that a query without routing key gets, are taken as responses here.)
C20_OneResponseLine ==
    [][\A r \in DOMAIN req :
          (Returns(r) \/ (GetStep(r) /\ req'[r].pc = "idle"))
          => /\ sent'.by = r
             /\ \/ StartsWith(sent'.line, "OK ")
                \/ StartsWith(sent'.line, "ERR ")
                \/ /\ Route(get.keys) = "otp"
                   /\ \E name \in {"h", "nonce", "otp", "status"} :
                         StartsWith(sent'.line, name \o "=")
                \/ get.keys = {} /\ sent'.line = Forbidden]_vars

----------------------------------------------------------------------------
(* Properties of a HOTP/TOTP validation as a whole *)

\* the line a code that matches no counter of the window is answered with
NoMatchLine(mode) ==
    IF mode = "hotp" THEN "ERR Could not validate OATH-HOTP OTP"
    ELSE "ERR Could not validate OATH-TOTP OTP"

\* C21 (as stated): a request whose update changes no row, the store holding
\* an equal or greater counter, is answered with the line of a code that
\* matched no counter, so the two cannot be told apart from the response.
C21_ReplayLooksLikeNoMatch ==
    [][\A r \in DOMAIN req :
          (Returns(r) /\ req[r].rowcount = 0) => sent'.line = NoMatchLine(req[r].mode)]_vars

\* C21 (amended): a request whose update changes no row is answered
\* "ERR replayed OATH-HOTP" ("ERR replayed OATH-TOTP"), a line different from
\* the "ERR Could not validate OATH-HOTP OTP" of a code that matched no
\* counter; neither answer changes the table, and no other request gets the
\* "replayed" line.
C21_ReplayHasItsOwnLine ==
    [][\A r \in DOMAIN req :
          /\ (Returns(r) /\ req[r].rowcount = 0)
             => /\ sent'.line = (IF req[r].mode = "hotp" THEN "ERR replayed OATH-HOTP"
                                 ELSE "ERR replayed OATH-TOTP")
                /\ sent'.line # NoMatchLine(req[r].mode)
                /\ db' = db
          /\ (sent'.by = r /\ sent'.line \in {NoMatchLine("hotp"), NoMatchLine("totp")})
             => req[r].pc = "idle" /\ db' = db
          /\ (sent'.by = r /\ sent'.line \in {"ERR replayed OATH-HOTP", "ERR replayed OATH-TOTP"})
             => Returns(r) /\ req[r].rowcount = 0]_vars

\* a request that lost the race to a concurrent one for the same counter has
\* just been answered "ERR replayed OATH-HOTP"
C21_Witness ==
    /\ sent.line = "ERR replayed OATH-HOTP"
    /\ db[TheUid].oath_c >= 1
    /\ maxHotpOk[TheUid] >= 0

\* the counter q hands to the store is one the search matched for q's code
Matched(q) ==
    /\ q.entry.key \in Enrolled
    /\ IF q.mode = "hotp"
       THEN /\ q.new_c - 1 \in q.entry.oath_c..(q.entry.oath_c + look_ahead - 1)
            /\ HotpCode(SecretOf(q.entry.key), q.new_c - 1) = q.otp
       ELSE /\ q.new_c \in 0..(MaxNow + tolerance)
            /\ HotpCode(SecretOf(q.entry.key), q.new_c) = q.otp

\* C22: the table changes only in the step in which update_oath_hotp_c returns
\* True to a request whose search matched, and then the counter of that
\* request's identity becomes the matched value; the step that takes a request
\* up (input checks, lookup, search: whether it ends in an error, without a
\* match, or with a match) and the execute step of the update leave the table
\* as it is, and a request returns from the update once.
C22_NoPartialCommit ==
    [][/\ db' # db
          => \E r \in DOMAIN req :
                /\ Returns(r) /\ req[r].rowcount = 1
                /\ Matched(req[r])
                /\ db' = [db EXCEPT ![req[r].entry.key] = [@ EXCEPT !.oath_c = req[r].new_c]]
       /\ \A r \in DOMAIN req :
             /\ TakenUp(r) => db' = db
             /\ (req[r].pc = "update" /\ req'[r] # req[r])
                => req'[r].pc = "commit" /\ db' = db
             /\ (req[r].pc = "commit" /\ req'[r] # req[r]) => req'[r] = Fresh
             /\ (req'[r].pc = "update" /\ req'[r] # req[r])
                => req[r].pc = "idle" /\ Matched(req'[r])]_vars

\* a request's update has counted one row and is not committed yet: the table
\* still holds the counter the request read
C22_Witness ==
    \E r \in DOMAIN req :
        /\ req[r].pc = "commit" /\ req[r].rowcount = 1
        /\ req[r].mode = "totp"
        /\ db[req[r].entry.key].oath_c = req[r].entry.oath_c
        /\ req[r].new_c > req[r].entry.oath_c

\* the fields of a row other than the counter
Fixed(row) == [key |-> row.key, nonce |-> row.nonce, key_handle |-> row.key_handle,
               aead |-> row.aead]

\* C24: a step of a validation request creates and deletes no row and changes
\* no nonce, key handle or AEAD; a request taken up for uid A works on the row
\* of A, and a row whose counter changes is the row of the identity of the
\* request that returns from its update in that step: every other row stays
\* as it is.
C24_ValidationFrame ==
    [][/\ DOMAIN db' = DOMAIN db
       /\ \A u \in DOMAIN db :
             /\ Fixed(db'[u]) = Fixed(db[u])
             /\ db'[u] # db[u]
                => \E r \in DOMAIN req : Returns(r) /\ req[r].entry.key = u
       /\ \A r \in DOMAIN req :
             /\ Returns(r)
                => \A u \in DOMAIN db : u # req[r].entry.key => db'[u] = db[u]
             /\ (req[r].pc = "idle" /\ req'[r].pc = "update")
                => /\ req'[r].entry = db[req'[r].entry.key]
                   /\ calls' \in {{OathFunction(m), "ValOathDb.get", "hsm"} : m \in {"hotp", "totp"}}
             /\ TakenUp(r) => db' = db
             /\ \A u \in DOMAIN db :
                   (/\ req'[r].pc = "update"
                    /\ \/ HotpStep(r, CodeOf(u, db[u].oath_c))
                       \/ TotpStep(r, CodeOf(u, now)))
                   => req'[r].entry.key = u]_vars

\* the counter of the second identity has just been advanced by a request
\* answered OK, while the first identity's row is as enrolled and a request
\* for the first identity is between its search and its update
C24_Witness ==
    /\ DOMAIN db = Identities
    /\ db[Second].oath_c = 2
    /\ db[TheUid] = Row(TheUid, 0)
    /\ sent.line = "OK counter=0002"
    /\ \E r \in DOMAIN req : req[r].pc = "update" /\ req[r].entry.key = TheUid

\* requests that meet a failure: no row for the uid, or the device raising
\* during the search
FailingInputs ==
    {[lexOk |-> TRUE, uid |-> Unknown, otp |-> 999, devOk |-> TRUE]}
    \cup {[lexOk |-> TRUE, uid |-> u, otp |-> 999, devOk |-> FALSE] : u \in Enrolled}

\* C25: a HOTP/TOTP request for a uid without a row, or during whose search
\* the device raises, is answered with an ERR line in the step that takes it
\* up, its handler is over with that answer (nothing is tried again), and the
\* table is unchanged.
C25_FailuresAreRejections ==
    [][\A r \in DOMAIN req, in \in FailingInputs :
          (HotpStep(r, in) \/ TotpStep(r, in))
          => /\ sent'.by = r
             /\ StartsWith(sent'.line, "ERR ")
             /\ req'[r] = Fresh
             /\ db' = db]_vars

\* a password hash request is answered, or left without answer, on r in this step
PwhashStep(r) == req[r].pc = "idle" /\ sent'.by = r /\ "validate_pwhash" \in calls'

C27_OkImpliesCommitted ==
    [][\A r \in DOMAIN req :
          (/\ sent'.by = r
           /\ \/ StartsWith(sent'.line, "OK counter=")
              \/ StartsWith(sent'.line, "OK timecounter="))
          => /\ Returns(r)
             /\ req[r].rowcount = 1
             /\ sent'.line = IF req[r].mode = "hotp"
                             THEN "OK counter=" \o Hex04(req[r].new_c)
                             ELSE "OK timecounter=" \o Hex04(req[r].new_c)
             /\ req[r].new_c > db[req[r].entry.key].oath_c
             /\ db'[req[r].entry.key].oath_c = req[r].new_c]_vars

\* a HOTP request has just been answered OK counter=0003: the table holds 3,
\* and the other connection's request, which read the counter before, is
\* still to make its update
C27_Witness ==
    /\ sent.line = "OK counter=0003"
    /\ db[TheUid].oath_c = 3
    /\ \E r \in DOMAIN req :
          req[r].pc = "update" /\ req[r].mode = "hotp" /\ req[r].entry.oath_c < 3

----------------------------------------------------------------------------
(* Properties of the stick daemon *)

\* the connections whose handler has has_lock = True
Holders == {c \in Conns : handler[c].has_lock}
\* the step called a method of the device, or opened it
TouchedDevice(r) == r.command # None \/ r.opened

\* C23: at most one connection holds the lock, and the lock is locked exactly
\* when one does; a step that opens the device or calls write, read, flush or
\* drain is made for the connection that holds the lock, and while a
\* connection holds the lock from one state to the next, no other connection's
\* step touches the device.
C23_ExclusiveDevice ==
    [][/\ Cardinality(Holders) <= 1
       /\ lock <=> Holders # {}
       /\ TouchedDevice(ran')
          => /\ Holders = {ran'.by}
             /\ handler'[ran'.by].has_lock
             /\ lock /\ lock'
       /\ \A c \in Conns :
             (handler[c].has_lock /\ handler'[c].has_lock /\ ran'.by # c)
             => ~TouchedDevice(ran') /\ stick' = stick]_vars

\* connection a has locked, a read has just been run for it on the device, and
\* connection b, which has asked for the lock too, waits in acquire
C23_Witness ==
    /\ ran.by = "a" /\ ran.command = "read"
    /\ handler["a"].has_lock /\ handler["a"].pc = "reply"
    /\ handler["b"].pc = "acquire"
    /\ handler["c"].pc = "readline"

Waiting == {c \in Conns : handler[c].pc = "acquire"}

\* the handler of c ends in this step
Ends(c) == handler[c].pc # "closed" /\ handler'[c].pc = "closed"

\* C29: in the step in which a handler ends, for whatever reason, the lock is
\* released once if the handler holds it, and is left alone if it does not; a
\* release is always made by the handler that holds the lock, once, and frees
\* the lock. So the lock is never locked without a holder, and when handlers
\* wait in acquire while nobody holds the lock, one of them gets it.
C29_NoLockLeak ==
    /\ [][/\ \A c \in Conns :
                Ends(c) => IF handler[c].has_lock
                           THEN ran'.by = c /\ ran'.released = 1 /\ ~lock'
                           ELSE ran'.released = 0 /\ lock' = lock
          /\ ran'.released # 0
             => /\ ran'.released = 1
                /\ handler[ran'.by].has_lock /\ ~handler'[ran'.by].has_lock
                /\ lock /\ ~lock'
          /\ (lock' /\ ~lock) => ran'.acquired
          /\ (lock /\ ~lock') => ran'.released = 1]_vars
    /\ (Waiting # {} /\ Holders = {}) ~> (Holders # {})

\* the handler of a, which held the lock, has just ended because the command
\* it ran on the device raised; the lock is free and b, which waited for it in
\* acquire, can take it
C29_Witness ==
    /\ ran.by = "a" /\ ran.released = 1
    /\ handler["a"] = Closed
    /\ stick = None
    /\ ~lock
    /\ handler["b"].pc = "acquire"

\* invoke is called and returns for connection c in this step
Invoked(c) == handler[c].pc = "invoke" /\ handler'[c].pc = "reply"

\* C30: when invoke returns an exception (the device could not be opened, the
\* command is unknown, or the device method raised), self._stick is None
\* afterwards; an invoke that finds self._stick None opens the device before
\* it calls the device method; and an invoke whose command succeeds leaves a
\* handle in self._stick, the cached one if there was one, without opening the
\* device again.
C30_HandleRecovery ==
    [][\A c \in Conns :
          Invoked(c)
          => /\ ran'.by = c
             /\ handler'[c].res \in {Raised, Answer}
             /\ handler'[c].res = Raised => stick' = None
             /\ handler'[c].res = Answer
                => /\ stick' = Handle
                   /\ ran'.command = COMMANDS[handler[c].cmd]
                   /\ ran'.opened <=> stick = None
             /\ (stick = None /\ ran'.command # None) => ran'.opened
             /\ stick = Handle => ~ran'.opened]_vars

\* a write has just raised on the cached handle, which was opened by an
\* earlier invoke: the handle is discarded
C30_Witness ==
    /\ ran.by = "a" /\ ran.command = "write" /\ ~ran.opened
    /\ handler["a"].pc = "reply" /\ handler["a"].res = Raised
    /\ stick = None

----------------------------------------------------------------------------
(* Properties of the OTP 2.0 handler: device status and sync level *)

\* the status of the response to the request in val
StatusOf(out) == Get(out.vres, "status")

\* C31: when the device is asked and rejects the OTP, the status of the
\* response is BAD_OTP for YSM_ID_NOT_FOUND and for YSM_OTP_INVALID,
\* REPLAYED_OTP for YSM_OTP_REPLAY, and BACKEND_ERROR for any other status of
\* the device; the status is OK only if the device was asked and validated the
\* OTP, and then it is OK.
C31_DeviceStatusMapping ==
    Handled
    => /\ val.out.asked
          => StatusOf(val.out) =
                IF val.dev = "OK" THEN <<"OK">>
                ELSE IF val.dev \in {"YSM_ID_NOT_FOUND", "YSM_OTP_INVALID"} THEN <<"BAD_OTP">>
                ELSE IF val.dev = "YSM_OTP_REPLAY" THEN <<"REPLAYED_OTP">>
                ELSE <<"BACKEND_ERROR">>
       /\ StatusOf(val.out) = <<"OK">> => val.out.asked /\ val.dev = "OK"
       /\ StatusOf(val.out) = <<"REPLAYED_OTP">> => val.out.asked /\ val.dev = "YSM_OTP_REPLAY"

\* the device was asked about the OTP of a signed request of client 1 and
\* answered that it is a replay
C31_Witness ==
    /\ Handled /\ val.out.asked
    /\ val.dev = "YSM_OTP_REPLAY"
    /\ Registered(val.params) /\ Has(val.params, "h")
    /\ StatusOf(val.out) = <<"REPLAYED_OTP">>

\* the value of sl in the request, when there is one
SyncLevel(params) == Get(params, "sl")[1]

\* C32: a request with sl=100 or sl=secure is not rejected for its sync
\* level: when nothing else is wrong with it and the device validates the OTP,
\* its status is OK and the response carries sl=100; a request gets
\* BACKEND_ERROR for its sync level only when its sl is neither "100" nor
\* "secure".
C32_SyncLevelAccepted ==
    (Handled /\ Has(val.params, "sl") /\ SyncLevel(val.params) \in {"100", "secure"})
    => /\ (/\ ykotp_valid_input(Get(val.params, "otp")[1])
           /\ Has(val.params, "nonce") /\ Get(val.params, "nonce")[1] = GoodNonce
           /\ ~Has(val.params, "id")
           /\ val.dev = "OK")
          => /\ StatusOf(val.out) = <<"OK">>
             /\ Has(val.out.vres, "sl") /\ Get(val.out.vres, "sl") = <<"100">>
       /\ val.dev = "OK" => StatusOf(val.out) # <<"BACKEND_ERROR">>

----------------------------------------------------------------------------
(* The uid and code of one HOTP/TOTP request *)

\* the validation server with the enrolled records, serving no request
ValIdle ==
    /\ db = [u \in Enrolled |-> Row(u, 0)]
    /\ wlock = NoReq
    /\ now = 0
    /\ req = [r \in Reqs |-> Fresh]
    /\ sent = NothingSent
    /\ maxOk = [u \in Enrolled |-> NotFound]
    /\ maxHotpOk = [u \in Enrolled |-> NotFound]
    /\ val = NoVal
    /\ args = ServerArgs
    /\ calls = {}
    /\ get = NoGet
    /\ pwh = NoPwh

InitBits ==
    /\ ValIdle
    /\ StickIdle
    /\ \E mode \in {"hotp", "totp"}, uid \in UidValues, raw \in RawValues :
          bits = [mode |-> mode, uid |-> uid, raw |-> raw, out |-> NoOut]
    /\ enrol = NoEnrol
    /\ clients = NoClients
    /\ dec = NoDec
    /\ unl = NoUnl

\* validate_oath_hotp / validate_oath_totp is given the request
OathBits ==
    /\ bits.out = NoOut
    /\ bits' = [bits EXCEPT !.out = validate_oath_bits(bits.mode, bits.uid, bits.raw)]
    /\ UNCHANGED <<valVars, stickVars, enrol, clients, dec, unl>>

NextBits == OathBits

SpecBits == InitBits /\ [][NextBits]_vars

----------------------------------------------------------------------------
(* Properties of the uid and code extraction *)

\* the request has been through the handler's input steps
BitsDone == bits.out # NoOut

\* what the request holds as uid and as code: the uid parameter and the whole
\* value, or the modhex characters the value starts with and what follows them
UidPart(b) == IF b.uid # NoUid THEN b.uid ELSE Run(b.raw, ModhexChars, Len(b.raw))
CodePart(b) ==
    IF b.uid # NoUid THEN BeforeEnd(b.raw)
    ELSE BeforeEnd(SubSeq(b.raw, Len(UidPart(b)) + 1, Len(b.raw)))

\* C33: for every HOTP/TOTP value that passes the input pattern, the
\* handler either goes on to the search with a non-empty uid and the numeric
\* code, or answers "ERR Invalid OATH-HOTP input" (resp. OATH-TOTP); it answers
\* so only when the uid or the code is missing, so a request with a uid and a
\* code of 6 to 8 digits goes on to the search even when the code's value is 0.
C33_ExtractionTotal ==
    (BitsDone /\ hotp_valid_input(bits.raw))
    => /\ \/ /\ bits.out.end = "search"
             /\ bits.out.uid # <<>>
             /\ bits.out.uid = UidPart(bits)
          \/ /\ bits.out.end = "return"
             /\ bits.out.line = "ERR Invalid " \o OathName(bits.mode) \o " input"
       /\ bits.out.end = "return" => UidPart(bits) = <<>> \/ CodePart(bits) = <<>>
       /\ (/\ UidPart(bits) # <<>>
           /\ Len(CodePart(bits)) \in CodeMin..CodeMax
           /\ \A i \in 1..Len(CodePart(bits)) : IsDigit(CodePart(bits)[i]))
          => bits.out.end = "search" /\ bits.out.otp = DecimalValue(CodePart(bits))

----------------------------------------------------------------------------
(* init_oath_token: enrolment of a token, next to a running server *)

\* validate_oath_c: the counter to store, or NotFound when the run ends in
\* sys.exit(1); `if args.test_code:' is false for None and for 0
validate_oath_c(e) ==
    IF e.test_code # NoTestCode /\ e.test_code # 0
    THEN hotp_search_for_oath_code(SecretOf(e.uid), e.oath_c, e.test_code, test_oath_window)
    ELSE e.oath_c

\* store_oath_entry: DELETE with --force, INSERT, commit; the table after it,
\* unchanged when the INSERT raises sqlite3.IntegrityError
store_oath_entry(e, counter) ==
    IF e.uid \in DOMAIN db /\ ~e.force THEN db
    ELSE [u \in DOMAIN db \cup {e.uid} |-> IF u = e.uid THEN Row(e.uid, counter) ELSE db[u]]

\* main of init_oath_token: generate_aead, validate_oath_c, store_oath_entry
Enrol ==
    /\ enrol.pc = "start"
    /\ wlock = NoReq
    /\ LET counter == validate_oath_c(enrol)
       IN  IF counter = NotFound
           THEN /\ enrol' = [enrol EXCEPT !.pc = "exit"]
                /\ db' = db
           ELSE /\ db' = store_oath_entry(enrol, counter)
                /\ enrol' = [enrol EXCEPT !.pc = IF enrol.uid \in DOMAIN db /\ ~enrol.force
                                                 THEN "exit" ELSE "stored"]
    /\ sent' = NothingSent
    /\ calls' = {"hsm", "store_oath_entry"}
    /\ UNCHANGED <<wlock, now, req, maxOk, maxHotpOk, val, args, get, pwh, stickVars, bits, clients, dec, unl>>

\* the tables the tool may find: none of the identity's rows, or its row at
\* some counter
EnrolTables ==
    {[u \in {} |-> Row(u, 0)]} \cup {[u \in Enrolled |-> Row(u, c)] : c \in 0..1}

\* the test codes of a command line: none, 0, a code no counter gives, and
\* the codes of the counters around the window
TestCodes ==
    {NoTestCode, 0, 999} \cup {HotpCode(SecretOf(TheUid), k) : k \in 0..test_oath_window}

InitEnrol ==
    /\ \E t \in EnrolTables : db = t
    /\ wlock = NoReq
    /\ now = 0
    /\ req = [r \in Reqs |-> Fresh]
    /\ sent = NothingSent
    /\ maxOk = [u \in Enrolled |-> NotFound]
    /\ maxHotpOk = [u \in Enrolled |-> NotFound]
    /\ val = NoVal
    /\ args = ServerArgs
    /\ calls = {}
    /\ get = NoGet
    /\ pwh = NoPwh
    /\ StickIdle
    /\ bits = NoBits
    /\ clients = NoClients
    /\ dec = NoDec
    /\ unl = NoUnl
    /\ \E code \in TestCodes, force \in BOOLEAN :
          enrol = [uid |-> TheUid, oath_c |-> 0, test_code |-> code, force |-> force,
                   pc |-> "start"]

NextEnrol ==
    \/ Enrol
    \/ \E r \in DOMAIN req, k \in 0..(test_oath_window + 1) :
          OathValidate(r, "hotp", TRUE, TheUid, HotpCode(SecretOf(TheUid), k), TRUE)
    \/ \E r \in DOMAIN req : UpdateExecute(r)
    \/ \E r \in DOMAIN req : UpdateCommit(r)

SpecEnrol == InitEnrol /\ [][NextEnrol]_vars

----------------------------------------------------------------------------
(* Properties of the enrolment *)

\* the counters tried for the test code of command line e, and whether the
\* code is the one of counter k
TestWindow(e) == e.oath_c..(e.oath_c + test_oath_window - 1)
TestMatches(e, k) == HotpCode(SecretOf(e.uid), k) = e.test_code

\* C34: when init_oath_token is given a test code that matches counter k
\* of the window and stores the record, the record holds counter k+1, and
\* from then on no HOTP request presenting that test code for the identity is
\* answered OK; when the test code matches no counter of the window, the run
\* stores no record.
C34_EnrolReplaySafe ==
    [][/\ (enrol.pc = "start" /\ enrol'.pc # "start" /\ enrol.test_code # NoTestCode)
          => /\ \A k \in TestWindow(enrol) :
                   (TestMatches(enrol, k) /\ enrol'.pc = "stored")
                   => db'[enrol.uid].oath_c = k + 1
             /\ (\A k \in TestWindow(enrol) : ~TestMatches(enrol, k))
                => db' = db /\ enrol'.pc = "exit"
       /\ (/\ enrol.pc = "stored"
           /\ \E k \in TestWindow(enrol) : TestMatches(enrol, k))
          => \A r \in DOMAIN req :
                (/\ req[r].pc = "commit"
                 /\ req[r].entry.key = enrol.uid
                 /\ req[r].otp = enrol.test_code)
                => ~StartsWith(sent'.line, "OK")
      ]_vars

----------------------------------------------------------------------------
(* The server's start: args_fixup and load_clients_file *)

\* most lines of an enumerated clients file
MaxLines == 2

\* base64.b64decode(s) of a part: the decoded secret; a text whose length is
\* not padded to a multiple of four raises TypeError (B64Error here);
\* characters outside the alphabet are discarded
B64Error == "<TypeError>"
b64decode(s) ==
    CASE s = "c2VjcmV0" -> "secret"
      [] s = "a2V5" -> "key"
      [] s = "" -> ""
      [] s = "!!!!" -> ""
      [] OTHER -> B64Error

\* a line of the file: skip, whether it matches "(^\s*#|^\s*$)", and parts,
\* [x.strip() for x in line.split(",")]
Line(skip, parts) == [skip |-> skip, parts |-> parts]

\* comment, blank line, lines of two parts with good and bad ids and secrets,
\* lines of one and of three parts
FileLines ==
    {Line(TRUE, <<"# 2", "a2V5">>), Line(TRUE, <<"">>),
     Line(FALSE, <<"1", "c2VjcmV0">>), Line(FALSE, <<"01", "a2V5">>),
     Line(FALSE, <<"2", "a2V5">>), Line(FALSE, <<"2", "!!!!">>),
     Line(FALSE, <<"x", "a2V5">>), Line(FALSE, <<"2", "a2V">>),
     Line(FALSE, <<"1">>), Line(FALSE, <<"1", "a2V5", "a2V5">>)}

RECURSIVE FilesOf(_)
FilesOf(n) ==
    IF n = 0 THEN {<<>>}
    ELSE FilesOf(n - 1) \cup {Append(f, l) : f \in {g \in FilesOf(n - 1) : Len(g) = n - 1},
                                             l \in FileLines}

\* a clients file: readable (file(filename) and readlines succeed) and its lines
ClientFiles ==
    {[readable |-> FALSE, content |-> <<>>]}
    \cup {[readable |-> TRUE, content |-> c] : c \in FilesOf(MaxLines)}

\* what load_clients_file returns: None, or the dict res
NoTable == [none |-> TRUE, res |-> <<>>]
Table(res) == [none |-> FALSE, res |-> res]

\* res[id_num] = key
SetItem(res, id_num, key) ==
    [i \in DOMAIN res \cup {id_num} |-> IF i = id_num THEN key ELSE res[i]]

\* (mutation) only the number of parts is checked
LineRaises_CountOnly(line) == Len(line.parts) # 2

\* the try block of a line raises: not two parts, int() or b64decode raising
LineRaises(line) ==
    \/ Len(line.parts) # 2
    \/ int(line.parts[1]) = NaN
    \/ b64decode(line.parts[2]) = B64Error

\* the loop over content: the first bad line returns None
RECURSIVE load_lines(_, _)
load_lines(content, res) ==
    IF content = <<>> THEN Table(res)
    ELSE LET line == Head(content)
         IN  IF line.skip THEN load_lines(Tail(content), res)
             ELSE IF LineRaises(line) THEN NoTable
             ELSE load_lines(Tail(content),
                             SetItem(res, int(line.parts[1]), b64decode(line.parts[2])))

load_clients_file(f) == IF ~f.readable THEN NoTable ELSE load_lines(f.content, <<>>)

\* `not client_ids', `if loaded_client_ids': None and the empty dict are false
Falsy(loaded) == loaded.none \/ loaded.res = <<>>

\* args_fixup from `global client_ids' on, with some validation mode enabled:
\* explicit, whether --clients-file was given; file, the file it names, or the
\* default file
ArgsFixup ==
    /\ clients.pc = "start"
    /\ LET loaded == load_clients_file(clients.file)
       IN  clients' =
             IF clients.explicit /\ ~clients.mode_otp
             THEN [clients EXCEPT !.pc = "exit"]
             ELSE IF clients.explicit
             THEN [clients EXCEPT !.loaded = loaded, !.called = TRUE,
                                  !.client_ids = IF loaded.none THEN <<>> ELSE loaded.res,
                                  !.pc = IF Falsy(loaded) THEN "exit" ELSE "serving"]
             ELSE [clients EXCEPT !.loaded = loaded, !.called = TRUE,
                                  !.client_ids = IF Falsy(loaded) THEN @ ELSE loaded.res,
                                  !.pc = "serving"]
    /\ UNCHANGED <<valVars, stickVars, bits, enrol, dec, unl>>

\* check_signature in a request with id: key = client_ids.get(id_int)
ClientLookup(id_int) ==
    /\ clients.pc = "serving"
    /\ clients' = [clients EXCEPT !.key =
                      IF id_int \in DOMAIN clients.client_ids
                      THEN clients.client_ids[id_int] ELSE None]
    /\ UNCHANGED <<valVars, stickVars, bits, enrol, dec, unl>>

InitClients ==
    /\ ValIdle
    /\ StickIdle
    /\ bits = NoBits
    /\ enrol = NoEnrol
    /\ dec = NoDec
    /\ unl = NoUnl
    /\ \E f \in ClientFiles, explicit \in BOOLEAN, mode_otp \in BOOLEAN :
          clients = [explicit |-> explicit, mode_otp |-> mode_otp, file |-> f,
                     called |-> FALSE, loaded |-> NoTable, client_ids |-> <<>>,
                     key |-> None, pc |-> "start"]

NextClients ==
    \/ ArgsFixup
    \/ \E id_int \in 1..3 : ClientLookup(id_int)

SpecClients == InitClients /\ [][NextClients]_vars

----------------------------------------------------------------------------
(* Properties of the client table *)

\* the lines of a file that are neither comment nor blank
DataLines(f) == {i \in 1..Len(f.content) : ~f.content[i].skip}

\* the line reads <integer id>,<base64 secret>
Parses(line) ==
    /\ Len(line.parts) = 2
    /\ int(line.parts[1]) # NaN
    /\ b64decode(line.parts[2]) # B64Error

\* C35: load_clients_file returns a table only if the file is readable
\* and every line that is neither comment nor blank parses as
\* <integer id>,<base64 secret>, and then the table has the id of every such
\* line; with an unreadable file or any bad line it returns no table; the
\* server exits when a file given explicitly gave no table; and no request
\* changes the table once the server serves.
C35_ClientTableAllOrNothing ==
    [][LET f == clients.file
           bad == ~f.readable \/ \E i \in DataLines(f) : ~Parses(f.content[i])
       IN  /\ clients'.pc # "start" /\ clients'.called
              => /\ ~clients'.loaded.none
                    => /\ ~bad
                       /\ \A i \in DataLines(f) :
                             int(f.content[i].parts[1]) \in DOMAIN clients'.loaded.res
                 /\ bad => clients'.loaded.none
                 /\ bad /\ clients.explicit => clients'.pc = "exit"
                 /\ clients'.pc = "serving" /\ ~clients'.loaded.none /\ clients.explicit
                    => clients'.client_ids = clients'.loaded.res
           /\ clients.pc = "serving"
              => clients'.client_ids = clients.client_ids /\ clients'.pc = "serving"
      ]_vars

\* C35 witness: a file given explicitly, with a good line followed by a bad
\* one, gave no table and the server exited
C35_Witness ==
    /\ clients.pc = "exit"
    /\ clients.explicit /\ clients.mode_otp /\ clients.called
    /\ clients.file.readable /\ Len(clients.file.content) = 2
    /\ Parses(clients.file.content[1]) /\ ~clients.file.content[1].skip
    /\ ~clients.file.content[2].skip /\ ~Parses(clients.file.content[2])
    /\ clients.loaded.none

----------------------------------------------------------------------------
(* decrypt_aead: main, walk_dir, safe_process_files over the files found *)

\* most files handed to process_file in a run
MaxFiles == 4

\* what process_file does with a file:
\*   "skip"   the name is not modhex or the id is out of range: return True
\*   "ok"     the AEAD is decrypted and written: log_success, return True
\*   "raise"  an exception leaves process_file (unreadable file, wrong key)
\*   "nokh"   an AEAD without key handle and none provided: log_failed, return False
FileKinds == {"skip", "ok", "raise", "nokh"}

\* MyState.should_quit
should_quit(d) == d.failed_files # <<>> /\ d.fail_fast

\* main after its loop: return 1 when files failed, fall off the end otherwise
\* (sys.exit status 0)
MainEnds(d) == [d EXCEPT !.pc = "end", !.exit = IF d.failed_files # <<>> THEN 1 ELSE 0]

\* main after walk_dir or safe_process_files came back, whatever they
\* returned: `if state.should_quit(): break'
AfterPath(d) == IF should_quit(d) THEN MainEnds(d) ELSE [d EXCEPT !.pc = "main"]



\* MyState.log_failed
log_failed(d, fn) ==
    [d EXCEPT !.failed_files = Append(@, fn), !.file_count = @ + 1]

\* MyState.log_success
log_success(d, fn) == [d EXCEPT !.file_count = @ + 1]

\* main: for path in args.paths, with a path left; isdir is os.path.isdir(path)
DecPath(isdir) ==
    /\ dec.pc = "main"
    /\ dec' = [dec EXCEPT !.pc = IF isdir THEN "walk" ELSE "files",
                          !.level = IF isdir THEN "dir" ELSE "file",
                          !.left = IF isdir THEN 0 ELSE 1,
                          !.paths = TRUE]
    /\ UNCHANGED <<valVars, stickVars, bits, enrol, clients, unl>>

\* main: args.paths (one path at least) is exhausted
DecNoMorePaths ==
    /\ dec.pc = "main"
    /\ dec.paths
    /\ dec' = MainEnds(dec)
    /\ UNCHANGED <<valVars, stickVars, bits, enrol, clients, unl>>

\* walk_dir: os.walk gives a directory and its files
DecDir ==
    /\ dec.pc = "walk"
    /\ dec' = [dec EXCEPT !.pc = "files"]
    /\ UNCHANGED <<valVars, stickVars, bits, enrol, clients, unl>>

\* walk_dir: os.walk is exhausted, return True
DecNoMoreDirs ==
    /\ dec.pc = "walk"
    /\ dec' = AfterPath(dec)
    /\ UNCHANGED <<valVars, stickVars, bits, enrol, clients, unl>>

\* safe_process_files: one turn of `for fn in files' on a file of the kind
DecFile(kind) ==
    /\ dec.pc = "files"
    /\ dec.level = "file" => dec.left = 1
    /\ dec.seen < MaxFiles
    /\ LET fn == dec.seen + 1
           d == [dec EXCEPT !.seen = fn, !.left = 0,
                            !.late = IF dec.failed_files # <<>> THEN @ + 1 ELSE @,
                            !.successes = IF kind = "ok" THEN @ + 1 ELSE @]
           logged == IF kind = "ok" THEN log_success(d, fn)
                     ELSE IF kind \in {"raise", "nokh"} THEN log_failed(d, fn)
                     ELSE d
       IN  dec' = IF kind = "nokh" \/ should_quit(logged)
                  THEN AfterPath(logged)
                  ELSE logged
    /\ UNCHANGED <<valVars, stickVars, bits, enrol, clients, unl>>

\* safe_process_files: files is exhausted, return True; walk_dir then checks
\* should_quit before the next directory
DecNoMoreFiles ==
    /\ dec.pc = "files"
    /\ dec.level = "file" => dec.left = 0
    /\ dec' = IF dec.level = "dir" /\ ~should_quit(dec)
              THEN [dec EXCEPT !.pc = "walk"]
              ELSE AfterPath(dec)
    /\ UNCHANGED <<valVars, stickVars, bits, enrol, clients, unl>>

\* main: state = MyState(args); seen, successes and late are history: files
\* handed to process_file, files decrypted, files handed over after a failure
InitDecrypt ==
    /\ ValIdle
    /\ StickIdle
    /\ bits = NoBits
    /\ enrol = NoEnrol
    /\ clients = NoClients
    /\ unl = NoUnl
    /\ \E fail_fast \in BOOLEAN :
          dec = [fail_fast |-> fail_fast, failed_files |-> <<>>, file_count |-> 0,
                 pc |-> "main", level |-> "file", left |-> 0, paths |-> FALSE,
                 seen |-> 0, successes |-> 0, late |-> 0, exit |-> 0]

NextDecrypt ==
    \/ \E isdir \in BOOLEAN : DecPath(isdir)
    \/ DecNoMorePaths
    \/ DecDir
    \/ DecNoMoreDirs
    \/ \E kind \in FileKinds : DecFile(kind)
    \/ DecNoMoreFiles

SpecDecrypt == InitDecrypt /\ [][NextDecrypt]_vars

----------------------------------------------------------------------------
(* Properties of decrypt_aead *)

\* C36: without --fail-fast a failing file is recorded as failed and the
\* loop goes on with the remaining files (of the directory, or with the next
\* path after a single file); with --fail-fast no file is handed to
\* process_file after the first failure; every processed file is counted once,
\* file_count = successes + failures; and the exit status is 1 if and only if
\* a file failed.
C36_FailurePolicy ==
    [][/\ (~dec.fail_fast /\ Len(dec'.failed_files) > Len(dec.failed_files))
          => /\ dec'.file_count = dec.file_count + 1
             /\ \/ dec'.pc = "files"
                \/ dec.level = "file" /\ dec'.pc = "main"
       /\ dec'.fail_fast => dec'.late = 0
       /\ dec'.file_count = dec'.successes + Len(dec'.failed_files)
       /\ dec'.pc = "end" => (dec'.exit = 1 <=> dec'.failed_files # <<>>)
      ]_vars

----------------------------------------------------------------------------
(* keystore_unlock: get_password, get_otp, main *)

\* get_password: expected_len, 32 for the HSM password, 64 for the master key
\* of a YubiHSM with key store decrypt
HsmPasswordLen == 32
MasterKeyLen == 64
\* get_otp: the length of an admin YubiKey OTP
AdminOtpLen == 44

\* the lengths of what the operator enters as password and as OTP (0: enter
\* alone), and whether the password text is hex (decode("hex") raises TypeError
\* on any other text, and on an odd number of characters)
PasswordLens == {0, 2, 31, 32, 33, 64, 65, 80}
OtpLens == {0, 43, 44, 45}

\* the values main passes around: None, a str of some length, the int 1 that
\* get_password returns after an invalid password, and an exception raised
PyNone == [type |-> "None", len |-> 0]
PyStr(n) == [type |-> "str", len |-> n]
PyInt1 == [type |-> "int", len |-> 0]
PyRaise == [type |-> "raise", len |-> 0]

\* `not x' of the values above
Not(x) == x.type = "None" \/ (x.type = "str" /\ x.len = 0)

\* get_password(hsm, args) on a text of len characters; decode("hex") gives
\* len / 2 bytes
get_password(have_key_store_decrypt, len, hex) ==
    LET expected_len == IF have_key_store_decrypt THEN MasterKeyLen ELSE HsmPasswordLen
    IN  IF len <= expected_len
        THEN IF ~hex \/ len % 2 = 1 THEN PyRaise
             ELSE IF len = 0 THEN PyNone
             ELSE PyStr(len \div 2)
        ELSE PyInt1

\* get_otp(hsm, args)
get_otp(no_otp, have_unlock, len) ==
    IF no_otp THEN PyNone
    ELSE IF have_unlock /\ len = AdminOtpLen THEN PyStr(len)
    ELSE PyNone

\* nothing was passed to hsm.unlock
NotCalled == [called |-> FALSE, password |-> PyNone, otp |-> PyNone]

\* main: the device is opened, the password and the OTP are read, and unless
\* both are false hsm.unlock is called; answer is what unlock does (returns
\* True or False, or raises YHSM_Error). exit is the status of the run, 1 also
\* for the traceback of an exception that main does not catch.
UnlockMain ==
    /\ unl.pc = "start"
    /\ LET password == get_password(unl.have_key_store_decrypt, unl.password_len, unl.hex)
           otp == get_otp(unl.no_otp, unl.have_unlock, unl.otp_len)
           reported == password = PyInt1
       IN  unl' =
             IF ~unl.device
             THEN [unl EXCEPT !.pc = "end", !.exit = 1]
             ELSE IF password = PyRaise
             THEN [unl EXCEPT !.pc = "end", !.exit = 1]
             ELSE IF Not(password) /\ Not(otp)
             THEN [unl EXCEPT !.pc = "end", !.exit = 1, !.reported = reported]
             ELSE [unl EXCEPT !.pc = "end", !.reported = reported,
                              !.unlock = [called |-> TRUE, password |-> password, otp |-> otp],
                              !.exit = IF unl.answer = "raises" THEN 1 ELSE 0]
    /\ UNCHANGED <<valVars, stickVars, bits, enrol, clients, dec>>

InitUnlock ==
    /\ ValIdle
    /\ StickIdle
    /\ bits = NoBits
    /\ enrol = NoEnrol
    /\ clients = NoClients
    /\ dec = NoDec
    /\ \E device \in BOOLEAN, ksd \in BOOLEAN, have_unlock \in BOOLEAN, no_otp \in BOOLEAN,
          plen \in PasswordLens, hex \in BOOLEAN, olen \in OtpLens,
          answer \in {"True", "False", "raises"} :
          unl = [device |-> device, have_key_store_decrypt |-> ksd,
                 have_unlock |-> have_unlock, no_otp |-> no_otp,
                 password_len |-> plen, hex |-> hex, otp_len |-> olen, answer |-> answer,
                 pc |-> "start", reported |-> FALSE, unlock |-> NotCalled, exit |-> 0]

NextUnlock == UnlockMain

SpecUnlock == InitUnlock /\ [][NextUnlock]_vars

----------------------------------------------------------------------------
(* Properties of keystore_unlock *)

\* the length a password may have for the device of the run
ExpectedLen == IF unl.have_key_store_decrypt THEN MasterKeyLen ELSE HsmPasswordLen

\* C37: when the password entered is longer than the expected length the
\* error is reported and hsm.unlock is not called; hsm.unlock is called only
\* with a password that is None or the hex-decoded text of a valid length,
\* with an OTP that is None or of 44 characters, and not with both None.
C37_UnlockOnlyWithValidInput ==
    unl.pc = "end"
    => /\ (unl.device /\ unl.password_len > ExpectedLen)
          => unl.reported /\ ~unl.unlock.called
       /\ unl.unlock.called
          => /\ \/ unl.unlock.password = PyNone
                \/ /\ unl.unlock.password = PyStr(unl.password_len \div 2)
                   /\ unl.password_len \in 1..ExpectedLen
             /\ unl.unlock.otp \in {PyNone, PyStr(AdminOtpLen)}
             /\ ~(unl.unlock.password = PyNone /\ unl.unlock.otp = PyNone)

=============================================================================
